---- MODULE Spec2Model ----
(***************************************************************************)
(* State-machine model of fastmail-mcp (packages/fastmail-mcp/src): the    *)
(* CalDAV/CardDAV tool handlers of index.ts run as interleaved             *)
(* invocations against a remote store, and the JMAP client of              *)
(* jmap/client.ts runs against a remote mail account.                      *)
(*                                                                         *)
(* Every `await` of a handler is one step: the remote call and its         *)
(* response are atomic at the store, and other invocations may run between *)
(* two steps of the same handler.                                          *)
(***************************************************************************)
EXTENDS Integers, Sequences, FiniteSets, TLC

\* ------------------------------------------------------------------ bounds
\* Tool invocations started in one behaviour of the calendar specifications.
MaxInvocations == 2

\* Tool invocations started in one behaviour of the object specification.
MaxObjInvocations == 3

\* Tool invocations started in one behaviour of the mail specifications.
MaxMailInvocations == 2

\* Tool invocations started in one behaviour of the specification of the
\* tools that list, search, mark and move messages.
MaxReadInvocations == 2

\* Tool invocations started in one behaviour of the specification of the
\* tools that address a whole collection.
MaxCollInvocations == 2

\* Calls of ensureOffsetAware on its own result in one behaviour.
MaxTzCalls == 1

\* Invocations of list_calendars in one behaviour.
MaxListInvocations == 2

\* Invocations of the event tools started in one behaviour of the event-time
\* specification.
MaxWhenInvocations == 1

\* Concurrent callers of the tool interface.
Procs == {"p1", "p2"}

\* ------------------------------------------------------------------ values
\* A URL is the sequence of its path segments below the account home.
NoUrl == << >>
CalA == <<"a">>
CalB == <<"b">>
CalGone == <<"zz">>
CalUrls == {CalA, CalB}
BookA == <<"ab">>
Collections == CalUrls \cup {BookA}

\* Member objects: an event of CalA, a contact of BookA, and ids that name no
\* object or no collection.
EvA1 == <<"a", "e1">>
EvMissing == <<"a", "e9">>
CtA1 == <<"ab", "c1">>
CtMissing == <<"ab", "c9">>
Stray == <<"zz", "x1">>

\* The body each caller sends in its updates, and the body the objects start
\* with.
BodyOf(p) == IF p = "p1" THEN "d1" ELSE "d2"
Body0 == "d0"

\* Text whose characters the code inspects is the sequence of its characters;
\* a JSON value that may be a string or not carries the typeof answer.
Js(chars) == [isString |-> TRUE, chars |-> chars]
Null == [isString |-> FALSE, chars |-> << >>]

\* Tool arguments: the target id (a URL or a mailbox id), the supplied
\* property names (update_calendar), the timezone argument, the body or title
\* text, and send_email's from, textBody and htmlBody.
NoTz == ""
SendArgs(id, props, tz, data, from, textBody, htmlBody) ==
  [id |-> id, props |-> props, timezone |-> tz, data |-> data,
   from |-> from, textBody |-> textBody, htmlBody |-> htmlBody]
Args(id, props, tz, data) == SendArgs(id, props, tz, data, Null, "", "")
NoArg == Args(NoUrl, {}, NoTz, "")

\* What an invocation returned (ok), or the error it threw (err, with the HTTP
\* status the message carries, 0 when it carries none).
Result(done, ok, err, status, id, etag, data) ==
  [done |-> done, ok |-> ok, err |-> err, status |-> status,
   id |-> id, etag |-> etag, data |-> data]
NoResult == Result(FALSE, FALSE, "", 0, NoUrl, 0, "")
Ok == Result(TRUE, TRUE, "", 0, NoUrl, 0, "")
OkId(u) == Result(TRUE, TRUE, "", 0, u, 0, "")
OkObject(o) == Result(TRUE, TRUE, "", 0, o.url, o.etag, o.data)
Err(e) == Result(TRUE, FALSE, e, 0, NoUrl, 0, "")
ErrStatus(e, st) == Result(TRUE, FALSE, e, st, NoUrl, 0, "")
\* The members a list tool returned.
OkList(l) == [list |-> l] @@ Ok

\* sendEmail's locals: the id of selectedIdentity, the ids of the Drafts and
\* Sent mailboxes it found, and the createdEmailId and submissionId it read
\* from the answer; NoUrl for each one unset.
Pick(identity, draftsId, sentId, createdEmailId, submissionId) ==
  [identity |-> identity, drafts |-> draftsId, sent |-> sentId,
   createdEmailId |-> createdEmailId, submissionId |-> submissionId]
NoPick == Pick(NoUrl, NoUrl, NoUrl, NoUrl, NoUrl)

\* A fetched object, and `undefined` for none.
Obj(url, etag, data) == [url |-> url, etag |-> etag, data |-> data]
NoObj == Obj(NoUrl, 0, "")

\* A remote call as it leaves the client, and the HTTP status it was answered
\* with (0 for a call whose answer carries none).
CallRec(m, url, etag, data, props, status) ==
  [m |-> m, url |-> url, etag |-> etag, data |-> data, props |-> props, status |-> status]
Call(m, url) == CallRec(m, url, 0, "", {}, 0)
CallObj(m, url, etag, data, status) == CallRec(m, url, etag, data, {}, status)
CallProps(m, url, props, status) == CallRec(m, url, 0, "", props, status)

\* The wire shapes of a current-user-privilege-set answer: `privilege` absent, a
\* single object, or a list; an item is an object with keys, or not an object.
PrivItem(keys) == [obj |-> TRUE, keys |-> keys]
Cups(kind, items) == [kind |-> kind, items |-> items]
ProbeThrows == [throws |-> TRUE, cups |-> Cups("absent", << >>)]
ProbeGives(c) == [throws |-> FALSE, cups |-> c]

\* Probe answers of a collection the principal may write.
WritableProbes ==
  { ProbeThrows,
    ProbeGives(Cups("absent", << >>)),
    ProbeGives(Cups("single", <<PrivItem(<<"_attributes", "all">>)>>)),
    ProbeGives(Cups("list", <<PrivItem(<<"read">>), PrivItem(<<"write">>)>>)),
    ProbeGives(Cups("list", <<PrivItem(<<"read">>), [obj |-> FALSE, keys |-> << >>], PrivItem(<<"writeContent">>)>>)),
    ProbeGives(Cups("single", <<PrivItem(<<"read", "writeProperties">>)>>)) }

\* Probe answers of a collection the principal may only read.
ReadOnlyProbes ==
  { ProbeThrows,
    ProbeGives(Cups("list", << >>)),
    ProbeGives(Cups("single", <<PrivItem(<<"read">>)>>)),
    ProbeGives(Cups("list", <<PrivItem(<<"_attributes", "read">>), PrivItem(<<"read">>)>>)),
    ProbeGives(Cups("list", <<PrivItem(<<"read">>), PrivItem(<<"readFreeBusy">>)>>)) }

\* The status create_calendar_event singles out in its error message.
Forbidden == 403

VARIABLES
  service,     \* the DAV server ("caldav" or "carddav") the callers work on
  calendars,   \* store: the sequence of calendar collections (URLs) of the account
  books,       \* store: the sequence of address books (URLs) of the account
  acl,         \* store: per collection, "rw" or "ro" for the principal
  calprops,    \* store: per calendar, the properties set by PROPPATCH so far
  probe,       \* store: per collection, its answer to the privilege PROPFIND
  objects,     \* store: object URL -> [etag, data] of the member objects
  rev,         \* store: revisions handed out so far (the next etag is rev + 1)
  uids,        \* client: random identifiers generated so far
  rights,      \* per caller: the handler's local `rights`
  existing,    \* per caller: the handler's local `existing` / `o` / `v`
  seen,        \* per caller: the object (url, etag) its last get returned
  op,          \* per caller: the tool being run, "idle" when none
  arg,         \* per caller: the tool's arguments
  pc,          \* per caller: the handler's position
  listing,     \* per caller: the handler's local `calendars` / `books`
  result,      \* per caller: what the invocation returned or threw
  calls,       \* per caller: the remote calls the invocation has issued, in order
  started,     \* invocations started so far
  session,     \* JMAP client: how many times this.session was assigned; 0 is null
  mailboxes,   \* mail account: the sequence of mailboxes [id, role, name]
  identities,  \* mail account: the sequence of sending identities
  emails,      \* mail account: the messages created so far, in order
  submissions, \* mail account: the submissions created so far, in order
  picked       \* per caller: sendEmail's selectedIdentity, drafts and sent

vars == <<service, calendars, books, acl, calprops, probe, objects, rev, uids,
          op, arg, pc, listing, rights, existing, seen, result, calls, started,
          session, mailboxes, identities, emails, submissions, picked>>

mail == <<session, mailboxes, identities, emails, submissions, picked>>

store == <<service, calendars, books, acl, calprops, probe, objects, rev>>

\* ------------------------------------------------------------ sequence helpers
Range(s) == {s[i] : i \in DOMAIN s}

\* Array.prototype.find: the first element satisfying Test, or NoUrl.
Find(s, Test(_)) ==
  LET hits == {i \in DOMAIN s : Test(s[i])}
  IN  IF hits = {} THEN NoUrl
      ELSE s[CHOOSE i \in hits : \A j \in hits : i <= j]

\* The sequence s without the element u.
Without(s, u) == SelectSeq(s, LAMBDA x : x # u)

\* Array.from(new Set(s)): s without repeats, in order of first appearance.
RECURSIVE Dedupe(_)
Dedupe(s) ==
  IF s = << >> THEN << >>
  ELSE LET front == Dedupe(SubSeq(s, 1, Len(s) - 1))
           last == s[Len(s)]
       IN  IF last \in Range(front) THEN front ELSE Append(front, last)

\* ------------------------------------------------------------ privileges
\* The keys pushed for the items: objects only, `_attributes` skipped.
RECURSIVE PrivilegeKeys(_)
PrivilegeKeys(items) ==
  IF items = << >> THEN << >>
  ELSE LET item == Head(items)
           own == IF item.obj THEN SelectSeq(item.keys, LAMBDA k : k # "_attributes")
                  ELSE << >>
       IN  own \o PrivilegeKeys(Tail(items))

\* The keys as pushed, repeats kept.
extractDavPrivileges_Repeats(cups) ==
  LET items == IF cups.kind = "list" THEN cups.items
               ELSE IF cups.kind = "single" THEN cups.items
               ELSE << >>
  IN  PrivilegeKeys(items)

\* privilege is taken as it is when it is a list, wrapped into a list of one
\* when it is a single value, and is no item when absent.
extractDavPrivileges(cups) ==
  LET items == IF cups.kind = "list" THEN cups.items
               ELSE IF cups.kind = "single" THEN cups.items
               ELSE << >>
  IN  Dedupe(PrivilegeKeys(items))

Includes(s, x) == x \in Range(s)

CanWrite(privileges) ==
  \/ Includes(privileges, "write")
  \/ Includes(privileges, "writeContent")
  \/ Includes(privileges, "writeProperties")
  \/ Includes(privileges, "all")

computeDavRights(privileges) ==
  [known |-> TRUE,
   privileges |-> privileges,
   canRead |-> Includes(privileges, "read") \/ Includes(privileges, "all"),
   canWrite |-> CanWrite(privileges)]

\* `null`: the rights are unknown.
NoRights == [known |-> FALSE, privileges |-> << >>, canRead |-> FALSE, canWrite |-> FALSE]

\* getCalendarRights without the empty-list test.
getCalendarRights_NoEmptyTest(r) ==
  IF r.throws THEN NoRights ELSE computeDavRights(extractDavPrivileges(r.cups))

\* getCalendarRights on the answer r of the PROPFIND: null when the call threw
\* or the privilege list is empty.
getCalendarRights(r) ==
  IF r.throws THEN NoRights
  ELSE LET privileges == extractDavPrivileges(r.cups)
       IN  IF Len(privileges) = 0 THEN NoRights ELSE computeDavRights(privileges)

\* if (rights && !rights.canWrite) throw ...
IsReadOnly(r) == r.known /\ ~r.canWrite

\* ------------------------------------------------------------ the remote store
\* String.prototype.startsWith on URLs.
IsPrefix(c, u) == Len(c) <= Len(u) /\ SubSeq(u, 1, Len(c)) = c

\* new URL(filename, collection.url).href
Child(c, name) == Append(c, name)

\* randomUUID(): the n-th identifier generated.
Uid(n) == <<"u1", "u2", "u3", "u4", "u5", "u6">>[n]

HasCollection(url) == url \in Range(calendars) \cup Range(books)

\* The answer to PROPFIND current-user-privilege-set on url; a missing
\* collection answers without the property, and a calendar that
\* create_calendar made answers as one its owner may write.
StoreProbe(url) ==
  IF ~HasCollection(url) THEN ProbeGives(Cups("absent", << >>))
  ELSE IF url \in DOMAIN probe THEN probe[url]
  ELSE ProbeGives(Cups("single", <<PrivItem(<<"all">>)>>))

\* The status of a write (DELETE, PROPPATCH, MKCALENDAR member PUT) on the
\* collection url.
CollectionWriteStatus(url, okStatus) ==
  IF ~HasCollection(url) THEN 404
  ELSE IF acl[url] # "rw" THEN Forbidden
  ELSE okStatus

IsSuccess(status) == status >= 200 /\ status < 300

\* DELETE of a collection: it goes, with its members.
StoreDeleteCollection(url) ==
  IF IsSuccess(CollectionWriteStatus(url, 204))
  THEN /\ calendars' = Without(calendars, url)
       /\ objects' = [u \in {x \in DOMAIN objects : ~IsPrefix(url, x)} |-> objects[u]]
  ELSE UNCHANGED <<calendars, objects>>

\* PUT of a new member (If-None-Match: *).
CreateStatus(collection, url) ==
  IF ~IsSuccess(CollectionWriteStatus(collection, 201))
  THEN CollectionWriteStatus(collection, 201)
  ELSE IF url \in DOMAIN objects THEN 412
  ELSE 201

StoreCreate(collection, url, data) ==
  IF IsSuccess(CreateStatus(collection, url))
  THEN /\ objects' = (url :> [etag |-> rev + 1, data |-> data]) @@ objects
       /\ rev' = rev + 1
  ELSE UNCHANGED <<objects, rev>>

\* The collection an object URL lies in.
Parent(url) == SubSeq(url, 1, Len(url) - 1)

\* REPORT multiget of one object URL under a collection: the object, if there.
StoreGet(collection, url) ==
  IF HasCollection(collection) /\ IsPrefix(collection, url) /\ url \in DOMAIN objects
  THEN Obj(url, objects[url].etag, objects[url].data)
  ELSE NoObj

\* The status of PUT or DELETE of a member with If-Match: etag; the client
\* library leaves the header out when it is given no etag (0).
ConditionalStatus(url, etag) ==
  IF ~IsSuccess(CollectionWriteStatus(Parent(url), 204))
  THEN CollectionWriteStatus(Parent(url), 204)
  ELSE IF url \notin DOMAIN objects THEN (IF etag = 0 THEN 404 ELSE 412)
  ELSE IF etag # 0 /\ objects[url].etag # etag THEN 412
  ELSE 204

\* PUT with If-Match: the body is replaced and a new etag handed out.
StorePut(url, etag, data) ==
  IF IsSuccess(ConditionalStatus(url, etag))
  THEN /\ objects' = (url :> [etag |-> rev + 1, data |-> data]) @@ objects
       /\ rev' = rev + 1
  ELSE UNCHANGED <<objects, rev>>

\* DELETE with If-Match: the member goes.
StoreDelete(url, etag) ==
  /\ IF IsSuccess(ConditionalStatus(url, etag))
     THEN objects' = [u \in DOMAIN objects \ {url} |-> objects[u]]
     ELSE UNCHANGED objects
  /\ UNCHANGED rev

\* ------------------------------------------------------------ handler steps
\* A tool invocation arrives: the handler starts with fresh locals.
Invoke(p, tool, a, max) ==
  /\ pc[p] \in {"idle", "done"}
  /\ started < max
  /\ started' = started + 1
  /\ op' = [op EXCEPT ![p] = tool]
  /\ arg' = [arg EXCEPT ![p] = a]
  /\ listing' = [listing EXCEPT ![p] = << >>]
  /\ rights' = [rights EXCEPT ![p] = NoRights]
  /\ existing' = [existing EXCEPT ![p] = NoObj]
  /\ calls' = [calls EXCEPT ![p] = << >>]

\* The handler goes on to its next await.
Goto(p, label) ==
  /\ pc' = [pc EXCEPT ![p] = label]
  /\ result' = [result EXCEPT ![p] = NoResult]

\* The handler throws or returns r.
Finish(p, r) ==
  /\ pc' = [pc EXCEPT ![p] = "done"]
  /\ result' = [result EXCEPT ![p] = r]

Issue(p, c) == calls' = [calls EXCEPT ![p] = Append(@, c)]

At(p, tool, label) == op[p] = tool /\ pc[p] = label

\* A login that leaves no call behind.
Login_Unissued(p, tool) ==
  /\ At(p, tool, "login")
  /\ \/ Goto(p, "list")
     \/ Finish(p, Err("AuthError"))
  /\ UNCHANGED <<mail, store, uids, op, arg, listing, rights, existing, seen, started, calls>>

\* await caldav.login(): succeeds, or throws on rejected credentials.
Login(p, tool) ==
  /\ At(p, tool, "login")
  /\ Issue(p, Call("login", NoUrl))
  /\ \/ Goto(p, "list")
     \/ Finish(p, Err("AuthError"))
  /\ UNCHANGED <<mail, store, uids, op, arg, listing, rights, existing, seen, started>>

\* const calendars = await caldav.fetchCalendars()
FetchCalendars(p, tool) ==
  /\ At(p, tool, "list")
  /\ Issue(p, Call("fetchCalendars", NoUrl))
  /\ listing' = [listing EXCEPT ![p] = calendars]
  /\ Goto(p, "listed")
  /\ UNCHANGED <<mail, store, uids, op, arg, rights, existing, seen, started>>

\* find the calendar by URL equality, then await getCalendarRights(caldav, url)
FindAndProbe(p, tool) ==
  /\ At(p, tool, "listed")
  /\ LET calendar == Find(listing[p], LAMBDA c : c = arg[p].id)
     IN  IF calendar = NoUrl
         THEN /\ Finish(p, Err("NotFound"))
              /\ UNCHANGED <<calls, rights>>
         ELSE /\ Issue(p, Call("propfind", calendar))
              /\ rights' = [rights EXCEPT ![p] =
                   getCalendarRights(StoreProbe(calendar))]
              /\ Goto(p, "probed")
  /\ UNCHANGED <<mail, store, uids, op, arg, listing, existing, seen, started>>

\* --------------------------------------------------------- delete_calendar
\* The guard refusing only an empty listing.
IsLastCalendar_OffByOne(cals) == Len(cals) < 1

\* if ((calendars || []).length <= 1) throw ...
IsLastCalendar(cals) == Len(cals) <= 1

delete_calendar_invoke(p) ==
  /\ \E id \in CalUrls \cup {CalGone} :
       Invoke(p, "delete_calendar", Args(id, {}, NoTz, ""), MaxInvocations)
  /\ Goto(p, "login")
  /\ UNCHANGED <<mail, store, uids, seen>>

delete_calendar_login(p) == Login(p, "delete_calendar")

delete_calendar_list(p) == FetchCalendars(p, "delete_calendar")

\* find the target, refuse the last calendar, else await caldav.deleteObject;
\* the Response of deleteObject is not looked at.
delete_calendar_delete(p) ==
  /\ At(p, "delete_calendar", "listed")
  /\ LET calendar == Find(listing[p], LAMBDA c : c = arg[p].id)
     IN  IF calendar = NoUrl
         THEN /\ Finish(p, Err("NotFound"))
              /\ UNCHANGED <<calendars, objects, calls>>
         ELSE IF IsLastCalendar(listing[p])
         THEN /\ Finish(p, Err("LastCollectionError"))
              /\ UNCHANGED <<calendars, objects, calls>>
         ELSE /\ Issue(p, CallObj("deleteObject", arg[p].id, 0, "",
                                 CollectionWriteStatus(arg[p].id, 204)))
              /\ StoreDeleteCollection(arg[p].id)
              /\ Finish(p, Ok)
  /\ UNCHANGED <<mail, service, books, acl, calprops, probe, rev, uids, op, arg, listing, rights, existing, seen, started>>

\* --------------------------------------------------------- update_calendar

\* Intl.DateTimeFormat accepts the identifier.
ValidZones == {"America/New_York", "Europe/London", "UTC", "Asia/Tokyo", "Asia/Kolkata"}
isValidTimezone(tz) == tz \in ValidZones

\* PROPPATCH of a calendar: the named properties are set.
StorePropPatch(url, props) ==
  IF IsSuccess(CollectionWriteStatus(url, 207))
  THEN calprops' = [calprops EXCEPT ![url] = @ \cup props]
  ELSE UNCHANGED calprops

\* Every property of the request set, supplied or not.
setProps_AllFour(props) ==
  {"displayname", "c:calendar-description", "ca:calendar-color", "c:calendar-timezone"}

\* const setProps = {}; if (name !== undefined) setProps['displayname'] = name;
\* and so on: the property names of the PROPPATCH body.
setProps(props) ==
  (IF "name" \in props THEN {"displayname"} ELSE {}) \cup
  (IF "description" \in props THEN {"c:calendar-description"} ELSE {}) \cup
  (IF "color" \in props THEN {"ca:calendar-color"} ELSE {}) \cup
  (IF "timezone" \in props THEN {"c:calendar-timezone"} ELSE {})

\* The argument checks made before getDavClients() and login.
update_calendar_invoke(p) ==
  /\ \E id \in CalUrls \cup {CalGone},
        props \in {{}, {"name"}, {"color", "timezone"},
                  {"name", "description", "color", "timezone"}},
        tz \in {"America/New_York", "foo"} :
       /\ Invoke(p, "update_calendar",
                 Args(id, props, IF "timezone" \in props THEN tz ELSE NoTz, ""),
                 MaxInvocations)
       /\ IF props = {}
          THEN Finish(p, Err("InvalidFormat"))
          ELSE IF "timezone" \in props /\ ~isValidTimezone(tz)
          THEN Finish(p, Err("InvalidTimezone"))
          ELSE Goto(p, "login")
  /\ UNCHANGED <<mail, store, uids, seen>>

update_calendar_login(p) == Login(p, "update_calendar")

update_calendar_list(p) == FetchCalendars(p, "update_calendar")

update_calendar_probe(p) == FindAndProbe(p, "update_calendar")

\* The rights check, setProps and await caldav.davRequest(PROPPATCH); the
\* answer of davRequest is not looked at.
update_calendar_patch(p) ==
  /\ At(p, "update_calendar", "probed")
  /\ IF IsReadOnly(rights[p])
     THEN /\ Finish(p, Err("ReadOnly"))
          /\ UNCHANGED <<calprops, calls>>
     ELSE /\ Issue(p, CallProps("davRequest", arg[p].id, setProps(arg[p].props),
                               CollectionWriteStatus(arg[p].id, 207)))
          /\ StorePropPatch(arg[p].id, setProps(arg[p].props))
          /\ Finish(p, Ok)
  /\ UNCHANGED <<mail, service, calendars, books, acl, probe, objects, rev, uids, op, arg, listing, rights, existing, seen, started>>

\* ------------------------------------------------ member objects: shared steps
\* const books = await carddav.fetchAddressBooks()
FetchAddressBooks(p, tool) ==
  /\ At(p, tool, "list")
  /\ Issue(p, Call("fetchAddressBooks", NoUrl))
  /\ listing' = [listing EXCEPT ![p] = books]
  /\ Goto(p, "listed")
  /\ UNCHANGED <<mail, store, uids, op, arg, rights, existing, seen, started>>

\* The collection whose URL is a prefix of the id.
FindByPrefix(cols, id) == Find(cols, LAMBDA c : IsPrefix(c, id))

\* find the collection by URL prefix, multiget the object by its URL, and take
\* the first object of the answer.
FetchExisting(p, tool, fetch) ==
  /\ At(p, tool, "listed")
  /\ LET collection == FindByPrefix(listing[p], arg[p].id)
         o == StoreGet(collection, arg[p].id)
     IN  IF collection = NoUrl
         THEN /\ Finish(p, Err("NotFound"))
              /\ UNCHANGED <<calls, existing>>
         ELSE /\ Issue(p, Call(fetch, arg[p].id))
              /\ existing' = [existing EXCEPT ![p] = o]
              /\ IF o = NoObj THEN Finish(p, Err("NotFound")) ELSE Goto(p, "fetched")
  /\ UNCHANGED <<mail, store, uids, op, arg, listing, rights, seen, started>>

\* The get tools: the same lookup, and the object is returned to the caller.
GetObject(p, tool, fetch) ==
  /\ At(p, tool, "listed")
  /\ LET collection == FindByPrefix(listing[p], arg[p].id)
         o == StoreGet(collection, arg[p].id)
     IN  IF collection = NoUrl
         THEN /\ Finish(p, Err("NotFound"))
              /\ UNCHANGED <<calls, existing, seen>>
         ELSE /\ Issue(p, Call(fetch, arg[p].id))
              /\ existing' = [existing EXCEPT ![p] = o]
              /\ IF o = NoObj
                 THEN Finish(p, Err("NotFound")) /\ UNCHANGED seen
                 ELSE /\ Finish(p, OkObject(o))
                      /\ seen' = [seen EXCEPT ![p] = Obj(o.url, o.etag, "")]
  /\ UNCHANGED <<mail, store, uids, op, arg, listing, rights, started>>

\* The answer's status never looked at.
Surface_IgnoresStatus(status) == Ok

\* if (!res.ok) throw new Error(`... failed (${res.status})`)
Surface(status) ==
  IF IsSuccess(status) THEN Ok ELSE ErrStatus("ProtocolError", status)

\* The write of object o with body data, answered with the store's status.
WriteExisting(p, method, o, data) ==
  /\ Issue(p, CallObj(method, o.url, o.etag, data, ConditionalStatus(o.url, o.etag)))
  /\ Finish(p, Surface(ConditionalStatus(o.url, o.etag)))

\* The update sent without the fetched etag.
UpdateExisting_NoEtag(p, tool, method) ==
  /\ At(p, tool, "fetched")
  /\ WriteExisting(p, method, Obj(existing[p].url, 0, ""), arg[p].data)
  /\ StorePut(existing[p].url, 0, arg[p].data)
  /\ UNCHANGED <<mail, service, calendars, books, acl, calprops, probe, uids,
                 op, arg, listing, rights, existing, seen, started>>

\* await update...({url: existing.url, etag: existing.etag, data})
UpdateExisting(p, tool, method) ==
  /\ At(p, tool, "fetched")
  /\ WriteExisting(p, method, existing[p], arg[p].data)
  /\ StorePut(existing[p].url, existing[p].etag, arg[p].data)
  /\ UNCHANGED <<mail, service, calendars, books, acl, calprops, probe, uids,
                 op, arg, listing, rights, existing, seen, started>>

\* The delete addressed by the id of the arguments, without a version tag.
DeleteExisting_ByArgument(p, tool, method) ==
  /\ At(p, tool, "fetched")
  /\ WriteExisting(p, method, Obj(arg[p].id, 0, ""), "")
  /\ StoreDelete(arg[p].id, 0)
  /\ UNCHANGED <<mail, service, calendars, books, acl, calprops, probe, uids,
                 op, arg, listing, rights, existing, seen, started>>

\* await delete...({url: existing.url, etag: existing.etag})
DeleteExisting(p, tool, method) ==
  /\ At(p, tool, "fetched")
  /\ WriteExisting(p, method, existing[p], "")
  /\ StoreDelete(existing[p].url, existing[p].etag)
  /\ UNCHANGED <<mail, service, calendars, books, acl, calprops, probe, uids,
                 op, arg, listing, rights, existing, seen, started>>

\* The CalDAV and the CardDAV server are separate stores, and a handler talks
\* to one of them: a behaviour follows the invocations on one server.
InvokeObj(p, tool, server, ids, bodies) ==
  /\ service = server
  /\ \E id \in ids, d \in bodies : Invoke(p, tool, Args(id, {}, NoTz, d), MaxObjInvocations)
  /\ Goto(p, "login")
  /\ UNCHANGED <<mail, store, uids, seen>>

EventIds == {EvA1, EvMissing, Stray}
ContactIds == {CtA1, CtMissing, Stray}

\* -------------------------------------------------------- get_calendar_event
get_calendar_event_invoke(p) == InvokeObj(p, "get_calendar_event", "caldav", EventIds, {""})
get_calendar_event_login(p) == Login(p, "get_calendar_event")
get_calendar_event_list(p) == FetchCalendars(p, "get_calendar_event")
get_calendar_event_fetch(p) == GetObject(p, "get_calendar_event", "fetchCalendarObjects")

\* ----------------------------------------------------- update_calendar_event
update_calendar_event_invoke(p) == InvokeObj(p, "update_calendar_event", "caldav", EventIds, {BodyOf(p)})
update_calendar_event_login(p) == Login(p, "update_calendar_event")
update_calendar_event_list(p) == FetchCalendars(p, "update_calendar_event")
update_calendar_event_fetch(p) ==
  FetchExisting(p, "update_calendar_event", "fetchCalendarObjects")
update_calendar_event_put(p) ==
  UpdateExisting(p, "update_calendar_event", "updateCalendarObject")

\* ----------------------------------------------------- delete_calendar_event
delete_calendar_event_invoke(p) == InvokeObj(p, "delete_calendar_event", "caldav", EventIds, {""})
delete_calendar_event_login(p) == Login(p, "delete_calendar_event")
delete_calendar_event_list(p) == FetchCalendars(p, "delete_calendar_event")
delete_calendar_event_fetch(p) ==
  FetchExisting(p, "delete_calendar_event", "fetchCalendarObjects")
delete_calendar_event_delete(p) ==
  DeleteExisting(p, "delete_calendar_event", "deleteCalendarObject")

\* ---------------------------------------------------------------- get_contact
get_contact_invoke(p) == InvokeObj(p, "get_contact", "carddav", ContactIds, {""})
get_contact_login(p) == Login(p, "get_contact")
get_contact_list(p) == FetchAddressBooks(p, "get_contact")
get_contact_fetch(p) == GetObject(p, "get_contact", "fetchVCards")

\* ------------------------------------------------------------- update_contact
update_contact_invoke(p) == InvokeObj(p, "update_contact", "carddav", ContactIds, {BodyOf(p)})
update_contact_login(p) == Login(p, "update_contact")
update_contact_list(p) == FetchAddressBooks(p, "update_contact")
update_contact_fetch(p) == FetchExisting(p, "update_contact", "fetchVCards")
update_contact_put(p) == UpdateExisting(p, "update_contact", "updateVCard")

\* ------------------------------------------------------------- delete_contact
delete_contact_invoke(p) == InvokeObj(p, "delete_contact", "carddav", ContactIds, {""})
delete_contact_login(p) == Login(p, "delete_contact")
delete_contact_list(p) == FetchAddressBooks(p, "delete_contact")
delete_contact_fetch(p) == FetchExisting(p, "delete_contact", "fetchVCards")
delete_contact_delete(p) == DeleteExisting(p, "delete_contact", "deleteVCard")

\* ------------------------------------------------------------- create_contact
create_contact_invoke(p) ==
  InvokeObj(p, "create_contact", "carddav", {BookA, CalGone}, {"n1"})
create_contact_login(p) == Login(p, "create_contact")
create_contact_list(p) == FetchAddressBooks(p, "create_contact")

\* find the book by URL equality, buildVCard, await carddav.createVCard
create_contact_create(p) ==
  /\ At(p, "create_contact", "listed")
  /\ LET book == Find(listing[p], LAMBDA b : b = arg[p].id)
         uid == Uid(uids + 1)
         url == Child(book, uid)
         status == CreateStatus(book, url)
     IN  IF book = NoUrl
         THEN /\ Finish(p, Err("NotFound"))
              /\ UNCHANGED <<objects, rev, uids, calls>>
         ELSE /\ uids' = uids + 1
              /\ Issue(p, CallObj("createVCard", url, 0, arg[p].data, status))
              /\ StoreCreate(book, url, arg[p].data)
              /\ IF IsSuccess(status)
                 THEN Finish(p, OkId(url))
                 ELSE Finish(p, ErrStatus("ProtocolError", status))
  /\ UNCHANGED <<mail, service, calendars, books, acl, calprops, probe,
                 op, arg, listing, rights, existing, seen, started>>

\* ------------------------------------------------------------ create_calendar
\* getMachineTimezone(): the zone the host is configured with.
getMachineTimezone == "UTC"

create_calendar_invoke(p) ==
  /\ \E tz \in {NoTz, "America/New_York", "foo"} :
       Invoke(p, "create_calendar", Args(NoUrl, {"name"}, tz, ""), MaxCollInvocations)
  /\ Goto(p, "login")
  /\ UNCHANGED <<mail, store, uids, seen>>

\* await caldav.login(); the account's homeUrl is known from then on.
create_calendar_login(p) ==
  /\ At(p, "create_calendar", "login")
  /\ Issue(p, Call("login", NoUrl))
  /\ \/ Goto(p, "loggedIn")
     \/ Finish(p, Err("AuthError"))
  /\ UNCHANGED <<mail, store, uids, op, arg, listing, rights, existing, seen, started>>

\* tz = timezone || getMachineTimezone(), the validity test, randomUUID and
\* await caldav.makeCalendar({ url, props }); the answer of makeCalendar is not
\* looked at. The server creates the calendar (201) or refuses (403).
create_calendar_make(p) ==
  /\ At(p, "create_calendar", "loggedIn")
  /\ LET tz == IF arg[p].timezone = NoTz THEN getMachineTimezone ELSE arg[p].timezone
         url == Child(NoUrl, Uid(uids + 1))
     IN  IF ~isValidTimezone(tz)
         THEN /\ Finish(p, Err("InvalidTimezone"))
              /\ UNCHANGED <<calendars, uids, calls>>
         ELSE \E status \in {201, Forbidden} :
                /\ uids' = uids + 1
                /\ Issue(p, CallProps("makeCalendar", url, arg[p].props \cup {"timezone"}, status))
                /\ calendars' = IF IsSuccess(status) THEN Append(calendars, url) ELSE calendars
                /\ Finish(p, OkId(url))
  /\ UNCHANGED <<mail, service, books, acl, calprops, probe, objects, rev,
                 op, arg, listing, rights, existing, seen, started>>

\* ------------------------------------------- list_calendar_events, list_contacts
\* The members the store holds under a collection.
Members(collection) ==
  {u \in DOMAIN objects : HasCollection(collection) /\ IsPrefix(collection, u)}

\* The listing of members that answers an unlisted collection with no members.
ListMembers_EmptyForUnlisted(p, tool, fetch) ==
  /\ At(p, tool, "listed")
  /\ LET collection == Find(listing[p], LAMBDA c : c = arg[p].id)
     IN  IF collection = NoUrl
         THEN /\ Finish(p, OkList({}))
              /\ UNCHANGED calls
         ELSE /\ Issue(p, Call(fetch, collection))
              /\ Finish(p, OkList(Members(collection)))
  /\ UNCHANGED <<mail, store, uids, op, arg, listing, rights, existing, seen, started>>

\* find the collection by URL equality, fetch its members and return them.
ListMembers(p, tool, fetch) ==
  /\ At(p, tool, "listed")
  /\ LET collection == Find(listing[p], LAMBDA c : c = arg[p].id)
     IN  IF collection = NoUrl
         THEN /\ Finish(p, Err("NotFound"))
              /\ UNCHANGED calls
         ELSE /\ Issue(p, Call(fetch, collection))
              /\ Finish(p, OkList(Members(collection)))
  /\ UNCHANGED <<mail, store, uids, op, arg, listing, rights, existing, seen, started>>

list_contacts_invoke(p) ==
  /\ \E id \in {BookA, CalGone} :
       Invoke(p, "list_contacts", Args(id, {}, NoTz, ""), MaxCollInvocations)
  /\ Goto(p, "login")
  /\ UNCHANGED <<mail, store, uids, seen>>

list_contacts_login(p) == Login(p, "list_contacts")

list_contacts_list(p) == FetchAddressBooks(p, "list_contacts")

\* const vcards = await carddav.fetchVCards({ addressBook: book })
list_contacts_fetch(p) == ListMembers(p, "list_contacts", "fetchVCards")

\* ---------------------------------------------------------- list_calendars
\* One entry of the answer: the calendar's URL and, once the probe of that
\* calendar has settled with rights, canWrite and privileges. The name and
\* the timezone of the entry come from the listing and are left out.
PendingEntry(url) ==
  [id |-> url, settled |-> FALSE, known |-> FALSE, canWrite |-> FALSE, privileges |-> << >>]
SettledEntry(url, r) ==
  [id |-> url, settled |-> TRUE, known |-> r.known, canWrite |-> r.canWrite,
   privileges |-> r.privileges]

\* The entries of the invocation, kept with its rights.
EntriesOf(p) == rights[p].entries
WithEntries(entries) == [entries |-> entries] @@ NoRights

\* A fan-out that starts the probe of the first calendar only.
StartProbes_FirstOnly(cals) ==
  IF cals = << >> THEN << >> ELSE <<Call("propfind", cals[1])>>

\* (calendars || []).map(async c => ... getCalendarRights(caldav, c.url)):
\* each callback runs up to its first await, which is the PROPFIND it sends.
StartProbes(cals) == [i \in DOMAIN cals |-> Call("propfind", cals[i])]

list_calendars_invoke(p) ==
  /\ Invoke(p, "list_calendars", NoArg, MaxListInvocations)
  /\ Goto(p, "login")
  /\ UNCHANGED <<mail, store, uids, seen>>

list_calendars_login(p) == Login(p, "list_calendars")

list_calendars_list(p) == FetchCalendars(p, "list_calendars")

\* Promise.all(calendars.map(...)): every probe is sent, none has answered.
list_calendars_map(p) ==
  /\ At(p, "list_calendars", "listed")
  /\ calls' = [calls EXCEPT ![p] = @ \o StartProbes(listing[p])]
  /\ rights' = [rights EXCEPT ![p] =
       WithEntries([i \in DOMAIN listing[p] |-> PendingEntry(listing[p][i])])]
  /\ Goto(p, "probing")
  /\ UNCHANGED <<mail, store, uids, op, arg, listing, existing, seen, started>>

\* One probe answers or throws, in any order; getCalendarRights turns the
\* answer into rights or null and the callback builds its entry.
list_calendars_settle(p) ==
  /\ At(p, "list_calendars", "probing")
  /\ \E i \in DOMAIN EntriesOf(p) :
       /\ ~EntriesOf(p)[i].settled
       /\ rights' = [rights EXCEPT ![p] =
            WithEntries([EntriesOf(p) EXCEPT ![i] =
              SettledEntry(@.id, getCalendarRights(StoreProbe(@.id)))])]
  /\ UNCHANGED <<mail, store, uids, op, arg, pc, listing, existing, seen, result, started, calls>>

\* Promise.all resolves once every callback has returned; asText(mapped).
list_calendars_join(p) ==
  /\ At(p, "list_calendars", "probing")
  /\ \A i \in DOMAIN EntriesOf(p) : EntriesOf(p)[i].settled
  /\ Finish(p, OkList(EntriesOf(p)))
  /\ UNCHANGED <<mail, store, uids, op, arg, listing, rights, existing, seen, started, calls>>

\* --------------------------------------------------------------- timezone
\* A datetime text is the sequence of its tokens: a run of w digits with the
\* number n it spells, or another character or word c.
Digits(w, n) == [c |-> "d", w |-> w, n |-> n]
Char(c) == [c |-> c, w |-> 0, n |-> 0]
KindOf(token) == <<token.c, token.w>>
KindsOf(text) == [i \in DOMAIN text |-> KindOf(text[i])]

\* YYYY-MM-DDTHH:MM:SS of the year 2026 with seconds 00.
IsoText(mo, d, h, mi) ==
  << Digits(4, 2026), Char("-"), Digits(2, mo), Char("-"), Digits(2, d), Char("T"),
     Digits(2, h), Char(":"), Digits(2, mi), Char(":"), Digits(2, 0) >>

NaiveShape == KindsOf(IsoText(0, 0, 0, 0))

\* The match without the anchor at the end.
MatchesNaive_Unanchored(text) ==
  Len(text) >= Len(NaiveShape) /\ KindsOf(SubSeq(text, 1, Len(NaiveShape))) = NaiveShape

\* /^(\d{4})-(\d{2})-(\d{2})T(\d{2}):(\d{2}):(\d{2})$/
MatchesNaive(text) == KindsOf(text) = NaiveShape

\* /Z$|[+-]\d{2}:\d{2}$/
hasTimezoneOffset(text) ==
  \/ Len(text) >= 1 /\ text[Len(text)].c = "Z"
  \/ /\ Len(text) >= 4
     /\ text[Len(text) - 3].c \in {"+", "-"}
     /\ KindOf(text[Len(text) - 2]) = <<"d", 2>>
     /\ text[Len(text) - 1].c = ":"
     /\ KindOf(text[Len(text)]) = <<"d", 2>>

\* An instant and a wall-clock reading are minutes counted from
\* 2026-03-01T00:00; MonthStart is the number of days from 1 March to the
\* first of the month.
MonthStart(mo) ==
  CASE mo = 3 -> 0 [] mo = 4 -> 31 [] mo = 5 -> 61 [] mo = 6 -> 92 [] mo = 7 -> 122
    [] mo = 8 -> 153 [] mo = 9 -> 184 [] mo = 10 -> 214 [] mo = 11 -> 245 [] mo = 12 -> 275

\* Date.UTC(y, mo - 1, d, h, mi, s) for y = 2026 and s = 0; a day or an hour
\* past the end of its month or day carries over.
DateUTC(mo, d, h, mi) == ((MonthStart(mo) + d - 1) * 24 + h) * 60 + mi

\* Date.prototype.toISOString(): YYYY-MM-DDTHH:MM:SS.sssZ of the instant.
toISOString(t) ==
  LET day == t \div 1440
      mo == CHOOSE m \in 3..12 : MonthStart(m) <= day /\ (m = 12 \/ day < MonthStart(m + 1))
  IN  IsoText(mo, day - MonthStart(mo) + 1, (t % 1440) \div 60, t % 60)
        \o << Char("."), Digits(3, 0), Char("Z") >>

\* The offset from UTC the host's zone database gives a zone at an instant.
\* In 2026 New York leaves standard time on 8 March at 07:00Z (02:00 EST
\* becomes 03:00 EDT) and returns to it on 1 November at 06:00Z (02:00 EDT
\* becomes 01:00 EST); Chicago follows an hour later.
OffsetAt(tzId, t) ==
  CASE tzId = "America/New_York" ->
         (IF t >= DateUTC(3, 8, 7, 0) /\ t < DateUTC(11, 1, 6, 0) THEN -240 ELSE -300)
    [] tzId = "America/Chicago" ->
         (IF t >= DateUTC(3, 8, 8, 0) /\ t < DateUTC(11, 1, 7, 0) THEN -300 ELSE -360)
    [] tzId = "Asia/Tokyo" -> 540
    [] tzId = "Asia/Kolkata" -> 330
    [] OTHER -> 0

\* date.toLocaleString('en-US', { timeZone }): the wall clock of the zone at
\* the instant.
toLocaleString(t, tzId) == t + OffsetAt(tzId, t)

\* The instants at which the wall clock of a zone reads wall.
Instants == {30 * k : k \in (240..432) \cup (11712..11856)}
InstantsOf(wall, tzId) == {t \in Instants : toLocaleString(t, tzId) = wall}

\* new Date(string) of a string without offset: the reading is taken for the
\* wall clock of the host's own zone. A reading that occurs twice is the
\* earlier instant, one that is skipped is read with the offset in force
\* before the transition.
ParseLocal(wall, machine) ==
  IF InstantsOf(wall, machine) # {}
  THEN CHOOSE t \in InstantsOf(wall, machine) : \A u \in InstantsOf(wall, machine) : t <= u
  ELSE wall - OffsetAt(machine, wall - 1440)

\* The arguments of naiveToUtcIso and ensureOffsetAware, and the zone the host
\* is configured with.
TzArgs(naive, tzId, machine) ==
  [naive |-> naive, tzId |-> tzId, machine |-> machine] @@ NoArg

\* The datetime text a conversion returned.
OkTime(iso) == [time |-> iso] @@ Ok

\* The conversion that takes the naive components for UTC.
naiveToUtcIso_NoOffset(naive, tzId, machine) ==
  IF ~MatchesNaive(naive)
  THEN Err("InvalidFormat")
  ELSE OkTime(toISOString(DateUTC(naive[3].n, naive[5].n, naive[7].n, naive[9].n)))

\* naiveToUtcIso(naive, tzId)
naiveToUtcIso(naive, tzId, machine) ==
  IF ~MatchesNaive(naive)
  THEN Err("InvalidFormat")
  ELSE LET asUtc == DateUTC(naive[3].n, naive[5].n, naive[7].n, naive[9].n)
           utcRepr == ParseLocal(toLocaleString(asUtc, "UTC"), machine)
           tzRepr == ParseLocal(toLocaleString(asUtc, tzId), machine)
           offsetMs == tzRepr - utcRepr
       IN  OkTime(toISOString(asUtc - offsetMs))

\* The conversion that sends every datetime through naiveToUtcIso.
ensureOffsetAware_AlwaysConverts(datetime, tzId, machine) ==
  naiveToUtcIso(datetime, tzId, machine)

\* ensureOffsetAware(datetime, tzId)
ensureOffsetAware(datetime, tzId, machine) ==
  IF hasTimezoneOffset(datetime) THEN OkTime(datetime)
  ELSE naiveToUtcIso(datetime, tzId, machine)

\* A call of naiveToUtcIso returns or throws.
naiveToUtcIso_call(p) ==
  /\ At(p, "naiveToUtcIso", "called")
  /\ Finish(p, naiveToUtcIso(arg[p].naive, arg[p].tzId, arg[p].machine))
  /\ UNCHANGED <<mail, store, uids, op, arg, listing, rights, existing, seen, started, calls>>

\* A call of ensureOffsetAware returns or throws.
ensureOffsetAware_call(p) ==
  /\ At(p, "ensureOffsetAware", "called")
  /\ Finish(p, ensureOffsetAware(arg[p].naive, arg[p].tzId, arg[p].machine))
  /\ UNCHANGED <<mail, store, uids, op, arg, listing, rights, existing, seen, started, calls>>

\* ensureOffsetAware is called on what it returned, for the same zone.
ensureOffsetAware_again(p) ==
  /\ op[p] = "ensureOffsetAware"
  /\ pc[p] = "done"
  /\ result[p].ok
  /\ started < MaxTzCalls
  /\ started' = started + 1
  /\ arg' = [arg EXCEPT ![p].naive = result[p].time]
  /\ Goto(p, "called")
  /\ UNCHANGED <<mail, store, uids, op, listing, rights, existing, seen, calls>>

\* ------------------------------------------------------------------- text
UpperCase == <<"A", "B", "C", "D", "E", "F", "G", "H", "I", "J", "K", "L", "M",
               "N", "O", "P", "Q", "R", "S", "T", "U", "V", "W", "X", "Y", "Z">>
LowerCase == <<"a", "b", "c", "d", "e", "f", "g", "h", "i", "j", "k", "l", "m",
               "n", "o", "p", "q", "r", "s", "t", "u", "v", "w", "x", "y", "z">>

\* String.prototype.toLowerCase
toLowerCase(s) ==
  [i \in 1..Len(s) |->
     IF \E k \in DOMAIN UpperCase : UpperCase[k] = s[i]
     THEN LowerCase[CHOOSE k \in DOMAIN UpperCase : UpperCase[k] = s[i]]
     ELSE s[i]]

\* String.prototype.trim
trim(s) ==
  LET keep == {i \in 1..Len(s) : s[i] \notin {" ", "\t", "\n"}}
  IN  IF keep = {} THEN << >>
      ELSE SubSeq(s, CHOOSE i \in keep : \A j \in keep : i <= j,
                     CHOOSE i \in keep : \A j \in keep : j <= i)

\* ------------------------------------------------- calendar-timezone text
\* The text of a calendar-timezone property is the sequence of its pieces:
\* "\r", "\n", " ", the word "TZID:" and words that do not contain it. A value
\* that may be undefined carries the flag defined.
Undefined == [defined |-> FALSE, text |-> << >>]
Defined(text) == [defined |-> TRUE, text |-> text]

\* lines.join('\r\n')
RECURSIVE JoinLines(_)
JoinLines(lines) ==
  IF lines = << >> THEN << >>
  ELSE IF Len(lines) = 1 THEN lines[1]
  ELSE lines[1] \o <<"\r", "\n">> \o JoinLines(Tail(lines))

\* String(n).padStart(2, '0')
DigitChars == <<"0", "1", "2", "3", "4", "5", "6", "7", "8", "9">>
padStart2(n) ==
  IF n < 10 THEN <<"0", DigitChars[n + 1]>>
  ELSE <<DigitChars[(n \div 10) + 1], DigitChars[(n % 10) + 1]>>

\* The offset of the zone on 1 January 2020 at 12:00Z, read as the difference
\* of two host-local parses. No zone of the model and no host zone has a
\* transition within a day of that instant, and each zone is then on the
\* standard time it is on at noon of 1 March 2026.
JanuaryOffset(tzId, machine) ==
  LET jan == DateUTC(3, 1, 12, 0)
      utcRepr == ParseLocal(toLocaleString(jan, "UTC"), machine)
      tzRepr == ParseLocal(toLocaleString(jan, tzId), machine)
  IN  tzRepr - utcRepr

\* buildCalendarTimezoneProperty(tzId)
buildCalendarTimezoneProperty(tzId, machine) ==
  LET offsetMin == JanuaryOffset(tzId, machine)
      sign == IF offsetMin >= 0 THEN "+" ELSE "-"
      absMin == IF offsetMin >= 0 THEN offsetMin ELSE -offsetMin
      offsetStr == <<sign>> \o padStart2(absMin \div 60) \o padStart2(absMin % 60)
  IN  JoinLines(<< <<"BEGIN:", "VCALENDAR">>,
                   <<"PRODID:", "-//fastmail-mcp//EN">>,
                   <<"VERSION:", "2.0">>,
                   <<"BEGIN:", "VTIMEZONE">>,
                   <<"TZID:", tzId>>,
                   <<"BEGIN:", "STANDARD">>,
                   <<"DTSTART:", "19700101T000000">>,
                   <<"TZOFFSETFROM:">> \o offsetStr,
                   <<"TZOFFSETTO:">> \o offsetStr,
                   <<"END:", "STANDARD">>,
                   <<"END:", "VTIMEZONE">>,
                   <<"END:", "VCALENDAR">> >>)

\* extractCalendarTimezone(vtimezone): the first place where "TZID:" is
\* followed by a character other than CR and LF, wherever in its line that is;
\* the capture runs to the end of the line and is trimmed.
extractCalendarTimezone(vtimezone) ==
  IF ~vtimezone.defined \/ vtimezone.text = << >> THEN Undefined
  ELSE LET s == vtimezone.text
           starts == {i \in 1..(Len(s) - 1) : s[i] = "TZID:" /\ s[i + 1] \notin {"\r", "\n"}}
       IN  IF starts = {} THEN Undefined
           ELSE LET i == CHOOSE a \in starts : \A b \in starts : a <= b
                    ends == {j \in (i + 1)..Len(s) : \A k \in (i + 1)..j : s[k] \notin {"\r", "\n"}}
                    j == CHOOSE a \in ends : \A b \in ends : b <= a
                    captured == trim(SubSeq(s, i + 1, j))
                IN  IF captured = << >> THEN Undefined ELSE Defined(captured)

\* The argument of extractCalendarTimezone.
TextArg(vtimezone) == [vtimezone |-> vtimezone] @@ NoArg

\* The text or the value a function of this section returned.
OkText(text) == [text |-> text] @@ Ok
OkValue(value) == [value |-> value] @@ Ok

\* A call of buildCalendarTimezoneProperty returns its text.
buildCalendarTimezoneProperty_call(p) ==
  /\ At(p, "buildCalendarTimezoneProperty", "called")
  /\ pc' = [pc EXCEPT ![p] = "built"]
  /\ result' = [result EXCEPT ![p] = OkText(buildCalendarTimezoneProperty(arg[p].tzId, arg[p].machine))]
  /\ UNCHANGED <<mail, store, uids, op, arg, listing, rights, existing, seen, started, calls>>

\* A call of extractCalendarTimezone, on its argument or on the text that
\* buildCalendarTimezoneProperty has just returned.
extractCalendarTimezone_call(p) ==
  /\ \/ At(p, "extractCalendarTimezone", "called")
     \/ At(p, "buildCalendarTimezoneProperty", "built")
  /\ LET vtimezone == IF pc[p] = "built" THEN Defined(result[p].text) ELSE arg[p].vtimezone
     IN  Finish(p, OkValue(extractCalendarTimezone(vtimezone)))
  /\ UNCHANGED <<mail, store, uids, op, arg, listing, rights, existing, seen, started, calls>>

\* ------------------------------------------------ event times of the handlers
\* Calendars of the listing with their `timezone`: the calendar-timezone
\* property as this program writes it, as a server writes it, empty, and
\* absent.
CalNewYork == <<"ny">>
CalTokyo == <<"tokyo">>
CalEmpty == <<"empty">>
CalPlain == <<"plain">>
TimedCalUrls == {CalNewYork, CalTokyo, CalEmpty, CalPlain}

\* calendar.timezone of a listed calendar.
TimezoneOf(url) ==
  CASE url = CalNewYork ->
         Defined(buildCalendarTimezoneProperty("America/New_York", getMachineTimezone))
    [] url = CalTokyo ->
         Defined(JoinLines(<< <<"BEGIN:", "VCALENDAR">>, <<"BEGIN:", "VTIMEZONE">>,
                              <<"TZID:", "Asia/Tokyo">>, <<"BEGIN:", "STANDARD">>,
                              <<"DTSTART:", "19700101T000000">>, <<"TZOFFSETFROM:", "+0900">>,
                              <<"TZOFFSETTO:", "+0900">>, <<"END:", "STANDARD">>,
                              <<"END:", "VTIMEZONE">>, <<"END:", "VCALENDAR">> >>))
    [] url = CalEmpty -> Defined(<< >>)
    [] OTHER -> Undefined

\* The identifier a captured text spells; a capture of several pieces spells
\* an identifier no zone database has.
IdentifierOf(text) == IF Len(text) = 1 THEN text[1] ELSE "unknown"

\* The zone of the host, whatever the calendar declares.
resolveTimezone_MachineOnly(calendarTimezone) == getMachineTimezone

\* resolveTimezone(calendarTimezone): calendarTimezone || getMachineTimezone()
resolveTimezone(calendarTimezone) ==
  IF calendarTimezone.defined /\ calendarTimezone.text # << >>
  THEN IdentifierOf(calendarTimezone.text)
  ELSE getMachineTimezone

\* The start and end arguments of the event tools: a datetime text, or
\* undefined for a bound of the listing that was not supplied.
TimedArgs(id, title, start, end) ==
  [start |-> start, end |-> end] @@ Args(id, {}, NoTz, title)

\* The request with the start and end it carries.
Timed(call, start, end) == [start |-> start, end |-> end] @@ call

\* The times of the event every other specification creates.
EventStart == Defined(IsoText(3, 8, 15, 0) \o <<Char("Z")>>)
EventEnd == Defined(IsoText(3, 8, 16, 0) \o <<Char("Z")>>)

\* --------------------------------------------------- create_calendar_event

create_calendar_event_invoke(p) ==
  /\ \E id \in CalUrls \cup {CalGone}, title \in {"t1"} :
       Invoke(p, "create_calendar_event", TimedArgs(id, title, EventStart, EventEnd),
              MaxInvocations)
  /\ Goto(p, "login")
  /\ UNCHANGED <<mail, store, uids, seen>>

create_calendar_event_login(p) == Login(p, "create_calendar_event")

create_calendar_event_list(p) == FetchCalendars(p, "create_calendar_event")

create_calendar_event_probe(p) == FindAndProbe(p, "create_calendar_event")

\* The rights check, resolveTimezone, ensureOffsetAware of start and end,
\* buildIcsEvent and await caldav.createCalendarObject. The organizer address
\* is always set here: loadDavConfig has required FASTMAIL_DAV_USERNAME or
\* FASTMAIL_USERNAME before any DAV client exists.
create_calendar_event_create(p) ==
  /\ At(p, "create_calendar_event", "probed")
  /\ IF IsReadOnly(rights[p])
     THEN /\ Finish(p, Err("ReadOnly"))
          /\ UNCHANGED <<objects, rev, uids, calls>>
     ELSE LET tz == resolveTimezone(extractCalendarTimezone(TimezoneOf(arg[p].id)))
              start == ensureOffsetAware(arg[p].start.text, tz, getMachineTimezone)
              end == ensureOffsetAware(arg[p].end.text, tz, getMachineTimezone)
              uid == Uid(uids + 1)
              url == Child(arg[p].id, uid)
              status == CreateStatus(arg[p].id, url)
          IN  IF ~start.ok \/ ~end.ok
              THEN /\ Finish(p, Err("InvalidFormat"))
                   /\ UNCHANGED <<objects, rev, uids, calls>>
              ELSE /\ uids' = uids + 1
                   /\ Issue(p, Timed(CallObj("createCalendarObject", url, 0, arg[p].data, status),
                                     start.time, end.time))
                   /\ StoreCreate(arg[p].id, url, arg[p].data)
                   /\ IF IsSuccess(status)
                      THEN Finish(p, OkId(url))
                      ELSE Finish(p, ErrStatus("ProtocolError", status))
  /\ UNCHANGED <<mail, service, calendars, books, acl, calprops, probe, op, arg, listing, rights, existing, seen, started>>

\* ------------------------------------------------------ list_calendar_events
\* The listing that asks for a time range as soon as one bound is supplied.
ListEvents_RangeOnEither(p, tool) ==
  /\ At(p, tool, "listed")
  /\ LET collection == Find(listing[p], LAMBDA c : c = arg[p].id)
         tz == resolveTimezone(extractCalendarTimezone(TimezoneOf(collection)))
         start == ensureOffsetAware(arg[p].start.text, tz, getMachineTimezone)
         end == ensureOffsetAware(arg[p].end.text, tz, getMachineTimezone)
     IN  IF collection = NoUrl
         THEN /\ Finish(p, Err("NotFound"))
              /\ UNCHANGED calls
         ELSE IF ~(arg[p].start.defined \/ arg[p].end.defined)
         THEN /\ Issue(p, Call("fetchCalendarObjects", collection))
              /\ Finish(p, OkList(Members(collection)))
         ELSE IF ~start.ok \/ ~end.ok
         THEN /\ Finish(p, Err("InvalidFormat"))
              /\ UNCHANGED calls
         ELSE /\ Issue(p, Timed(Call("fetchCalendarObjects", collection), start.time, end.time))
              /\ \E inRange \in SUBSET Members(collection) : Finish(p, OkList(inRange))
  /\ UNCHANGED <<mail, store, uids, op, arg, listing, rights, existing, seen, started>>

\* find the calendar by URL equality; params.timeRange is set when both bounds
\* were supplied, from ensureOffsetAware of each in the resolved zone; await
\* caldav.fetchCalendarObjects(params). With a time range the server answers
\* with the members it finds in the range.
ListEvents(p, tool) ==
  /\ At(p, tool, "listed")
  /\ LET collection == Find(listing[p], LAMBDA c : c = arg[p].id)
         tz == resolveTimezone(extractCalendarTimezone(TimezoneOf(collection)))
         start == ensureOffsetAware(arg[p].start.text, tz, getMachineTimezone)
         end == ensureOffsetAware(arg[p].end.text, tz, getMachineTimezone)
     IN  IF collection = NoUrl
         THEN /\ Finish(p, Err("NotFound"))
              /\ UNCHANGED calls
         ELSE IF ~(arg[p].start.defined /\ arg[p].end.defined)
         THEN /\ Issue(p, Call("fetchCalendarObjects", collection))
              /\ Finish(p, OkList(Members(collection)))
         ELSE IF ~start.ok \/ ~end.ok
         THEN /\ Finish(p, Err("InvalidFormat"))
              /\ UNCHANGED calls
         ELSE /\ Issue(p, Timed(Call("fetchCalendarObjects", collection), start.time, end.time))
              /\ \E inRange \in SUBSET Members(collection) : Finish(p, OkList(inRange))
  /\ UNCHANGED <<mail, store, uids, op, arg, listing, rights, existing, seen, started>>

list_calendar_events_invoke(p) ==
  /\ \E id \in CalUrls \cup {CalGone} :
       Invoke(p, "list_calendar_events", TimedArgs(id, "", Undefined, Undefined),
              MaxCollInvocations)
  /\ Goto(p, "login")
  /\ UNCHANGED <<mail, store, uids, seen>>

list_calendar_events_login(p) == Login(p, "list_calendar_events")

list_calendar_events_list(p) == FetchCalendars(p, "list_calendar_events")

list_calendar_events_fetch(p) == ListEvents(p, "list_calendar_events")

\* ------------------------------------ get_calendar_events_from_fastmail (alias)
get_calendar_events_from_fastmail_login(p) == Login(p, "get_calendar_events_from_fastmail")

get_calendar_events_from_fastmail_list(p) ==
  FetchCalendars(p, "get_calendar_events_from_fastmail")

get_calendar_events_from_fastmail_fetch(p) ==
  ListEvents(p, "get_calendar_events_from_fastmail")

\* The datetimes handed to the event tools: without offset in summer and in
\* winter, and with the offset Z or +02:00.
NaiveJune == IsoText(6, 15, 14, 30)
NaiveDecember == IsoText(12, 1, 9, 0)
AwareZulu == IsoText(6, 15, 14, 30) \o <<Char("Z")>>
AwarePlus == IsoText(6, 15, 16, 30) \o <<Char("+"), Digits(2, 2), Char(":"), Digits(2, 0)>>
EventTimes == {Defined(t) : t \in {NaiveJune, NaiveDecember, AwareZulu, AwarePlus}}

create_calendar_event_invoke_timed(p) ==
  /\ \E id \in TimedCalUrls, start \in EventTimes, end \in EventTimes :
       Invoke(p, "create_calendar_event", TimedArgs(id, "t1", start, end), MaxWhenInvocations)
  /\ Goto(p, "login")
  /\ UNCHANGED <<mail, store, uids, seen>>

list_calendar_events_invoke_timed(p) ==
  /\ \E id \in TimedCalUrls, start \in EventTimes \cup {Undefined},
        end \in EventTimes \cup {Undefined} :
       Invoke(p, "list_calendar_events", TimedArgs(id, "", start, end), MaxWhenInvocations)
  /\ Goto(p, "login")
  /\ UNCHANGED <<mail, store, uids, seen>>

get_calendar_events_from_fastmail_invoke_timed(p) ==
  /\ \E id \in TimedCalUrls, start \in EventTimes \cup {Undefined},
        end \in EventTimes \cup {Undefined} :
       Invoke(p, "get_calendar_events_from_fastmail", TimedArgs(id, "", start, end),
              MaxWhenInvocations)
  /\ Goto(p, "login")
  /\ UNCHANGED <<mail, store, uids, seen>>

\* ------------------------------------------------------ iCalendar, vCard
\* A wire text is the sequence of its characters; a value nothing looks into
\* (a UUID, a timestamp, an address) is one piece.

\* escText(v) of ical.ts and esc(v) of vcard.ts: the five replacements, which
\* act on each character by itself.
RECURSIVE escText(_)
escText(v) ==
  IF v = << >> THEN << >>
  ELSE IF Len(v) = 1
       THEN CASE v[1] = "\\" -> <<"\\", "\\">>
              [] v[1] = "\n" -> <<"\\", "n">>
              [] v[1] = "\r" -> << >>
              [] v[1] = ";" -> <<"\\", ";">>
              [] v[1] = "," -> <<"\\", ",">>
              [] OTHER -> v
  ELSE escText(SubSeq(v, 1, Len(v) \div 2)) \o escText(SubSeq(v, (Len(v) \div 2) + 1, Len(v)))

\* const max = 72
FoldWidth == 72

\* foldLine(line)
RECURSIVE FoldParts(_)
FoldParts(rest) ==
  IF Len(rest) > FoldWidth
  THEN <<SubSeq(rest, 1, FoldWidth)>>
         \o FoldParts(<<" ">> \o SubSeq(rest, FoldWidth + 1, Len(rest)))
  ELSE <<rest>>
\* The fold that leaves a line of one character more than the width whole.
foldLine_Wide(line) == IF Len(line) <= FoldWidth + 1 THEN line ELSE JoinLines(FoldParts(line))

foldLine(line) == IF Len(line) <= FoldWidth THEN line ELSE JoinLines(FoldParts(line))

\* The event handed to buildIcsEvent: its title and its optional location.
\* Start, end and organizer are the same valid values in every call.
EventArg(title, location) == [title |-> title, location |-> location] @@ NoArg

\* randomUUID()
Uuids == {"uuid-1", "uuid-2"}

\* buildIcsEvent(input) when randomUUID() returned uid.
buildIcsEvent(input, uid) ==
  LET lines ==
        << <<"BEGIN:VCALENDAR">>, <<"VERSION:2.0">>, <<"PRODID:-//fastmail-mcp//EN">>,
           <<"CALSCALE:GREGORIAN">>, <<"BEGIN:VEVENT">>,
           <<"U", "I", "D", ":", uid>>,
           <<"D", "T", "S", "T", "A", "M", "P", ":", "20260308T000000Z">>,
           <<"D", "T", "S", "T", "A", "R", "T", ":", "20260308T150000Z">>,
           <<"D", "T", "E", "N", "D", ":", "20260308T160000Z">>,
           foldLine(<<"O", "R", "G", "A", "N", "I", "Z", "E", "R", ":", "mailto", ":", "me@example.com">>),
           foldLine(<<"S", "U", "M", "M", "A", "R", "Y", ":">> \o escText(input.title)) >>
        \o (IF input.location # << >>
            THEN <<foldLine(<<"L", "O", "C", "A", "T", "I", "O", "N", ":">> \o escText(input.location))>>
            ELSE << >>)
        \o << <<"END:VEVENT">>, <<"END:VCALENDAR">> >>
  IN  [uid |-> uid, ics |-> JoinLines(lines) \o <<"\r", "\n">>]

\* The characters of t at the places in keep, in order.
RECURSIVE Kept(_, _, _, _)
Kept(t, keep, lo, hi) ==
  IF lo > hi THEN << >>
  ELSE IF lo = hi THEN (IF lo \in keep THEN <<t[lo]>> ELSE << >>)
  ELSE Kept(t, keep, lo, (lo + hi) \div 2) \o Kept(t, keep, ((lo + hi) \div 2) + 1, hi)

\* ics.replace(/\r?\n[ \t]/g, ''): a line feed followed by a space or a tab
\* goes, with that space or tab and with a carriage return before it.
Unfold(t) ==
  LET Folded(i) == t[i] = "\n" /\ i < Len(t) /\ t[i + 1] \in {" ", "\t"}
      gone == {i \in DOMAIN t :
                 \/ Folded(i)
                 \/ i > 1 /\ Folded(i - 1)
                 \/ t[i] = "\r" /\ i < Len(t) /\ Folded(i + 1)}
  IN  Kept(t, DOMAIN t \ gone, 1, Len(t))

\* unfolded.match(new RegExp(`\\n${key}[^:]*:(.*)`))?.[1]?.trim(): the first
\* line feed followed by the key and, anywhere after it, a colon; the capture
\* runs from the first such colon to the end of its line.
GetKey(unfolded, key) ==
  LET Colons(i) == {c \in (i + Len(key) + 1)..Len(unfolded) : unfolded[c] = ":"}
      starts == {i \in 1..Len(unfolded) :
                   /\ unfolded[i] = "\n"
                   /\ i + Len(key) <= Len(unfolded)
                   /\ SubSeq(unfolded, i + 1, i + Len(key)) = key
                   /\ Colons(i) # {}}
  IN  IF starts = {} THEN Undefined
      ELSE LET i == CHOOSE a \in starts : \A b \in starts : a <= b
               c == CHOOSE a \in Colons(i) : \A b \in Colons(i) : a <= b
               ends == {j \in c..Len(unfolded) :
                          \A k \in (c + 1)..j : unfolded[k] \notin {"\r", "\n"}}
               j == CHOOSE a \in ends : \A b \in ends : b <= a
           IN  Defined(trim(SubSeq(unfolded, c + 1, j)))

\* parseIcsSummary(ics): its uid and title.
parseIcsSummary(ics) ==
  LET unfolded == Unfold(ics)
  IN  [uid |-> GetKey(unfolded, <<"U", "I", "D">>),
       title |-> GetKey(unfolded, <<"S", "U", "M", "M", "A", "R", "Y">>)]

\* What buildIcsEvent or buildVCard returned, and what was parsed from it.
OkBuilt(built) == [built |-> built] @@ Ok
OkParsed(built, parsed) == [built |-> built, parsed |-> parsed] @@ Ok

\* A call of buildIcsEvent returns the uid it drew and the text.
buildIcsEvent_call(p) ==
  /\ At(p, "buildIcsEvent", "called")
  /\ \E uid \in Uuids :
       result' = [result EXCEPT ![p] = OkBuilt(buildIcsEvent(arg[p], uid))]
  /\ pc' = [pc EXCEPT ![p] = "built"]
  /\ UNCHANGED <<mail, store, uids, op, arg, listing, rights, existing, seen, started, calls>>

\* parseIcsSummary is called on the text buildIcsEvent returned.
parseIcsSummary_call(p) ==
  /\ At(p, "buildIcsEvent", "built")
  /\ Finish(p, OkParsed(result[p].built, parseIcsSummary(result[p].built.ics)))
  /\ UNCHANGED <<mail, store, uids, op, arg, listing, rights, existing, seen, started, calls>>

\* /\s/
Whitespace == {" ", "\t", "\n", "\r"}

\* fullName.trim().split(/\s+/): the runs of characters other than whitespace,
\* or the one empty string when there is none.
RECURSIVE SplitRuns(_, _)
SplitRuns(t, run) ==
  IF t = << >> THEN (IF run = << >> THEN << >> ELSE <<run>>)
  ELSE IF Head(t) \in Whitespace
       THEN (IF run = << >> THEN << >> ELSE <<run>>) \o SplitRuns(Tail(t), << >>)
  ELSE SplitRuns(Tail(t), Append(run, Head(t)))
TrimSplit(fullName) ==
  IF SplitRuns(fullName, << >>) = << >> THEN << << >> >> ELSE SplitRuns(fullName, << >>)

\* parts.slice(0, -1).join(' ')
RECURSIVE JoinSpace(_)
JoinSpace(parts) ==
  IF parts = << >> THEN << >>
  ELSE IF Len(parts) = 1 THEN parts[1]
  ELSE parts[1] \o <<" ">> \o JoinSpace(Tail(parts))

\* The contact handed to buildVCard: its full name; no emails, phones or note.
ContactArg(fullName) == [fullName |-> fullName] @@ NoArg

\* The N line with family and given name exchanged.
NLine_GivenFirst(fullName) ==
  LET parts == TrimSplit(fullName)
      family == IF Len(parts) > 1 THEN parts[1] ELSE parts[1]
      given == IF Len(parts) > 1 THEN JoinSpace(Tail(parts)) ELSE << >>
  IN  <<"N", ":">> \o escText(family) \o <<";">> \o escText(given) \o <<";", ";", ";">>

\* `N:${esc(family)};${esc(given)};;;`
NLine(fullName) ==
  LET parts == TrimSplit(fullName)
      family == IF Len(parts) > 1 THEN parts[Len(parts)] ELSE parts[1]
      given == IF Len(parts) > 1 THEN JoinSpace(SubSeq(parts, 1, Len(parts) - 1)) ELSE << >>
  IN  <<"N", ":">> \o escText(family) \o <<";">> \o escText(given) \o <<";", ";", ";">>

\* buildVCard(input) when randomUUID() returned uid.
buildVCard(input, uid) ==
  LET lines == << <<"BEGIN:VCARD">>, <<"VERSION:3.0">>, <<"U", "I", "D", ":", uid>>,
                  <<"F", "N", ":">> \o escText(input.fullName),
                  NLine(input.fullName),
                  <<"END:VCARD">> >>
  IN  [uid |-> uid, vcard |-> JoinLines(lines) \o <<"\r", "\n">>]

\* A call of buildVCard returns the uid it drew and the text.
buildVCard_call(p) ==
  /\ At(p, "buildVCard", "called")
  /\ \E uid \in Uuids : Finish(p, OkBuilt(buildVCard(arg[p], uid)))
  /\ UNCHANGED <<mail, store, uids, op, arg, listing, rights, existing, seen, started, calls>>

\* ---------------------------------------------------------------- mailboxes
Mailbox(id, role, name) == [id |-> id, role |-> role, name |-> name]
M1 == <<"m1">>
M2 == <<"m2">>
MGone == <<"m9">>

inbox == <<"i", "n", "b", "o", "x">>
spam == <<"s", "p", "a", "m">>
junk == <<"j", "u", "n", "k">>
trash == <<"t", "r", "a", "s", "h">>
sent == <<"s", "e", "n", "t">>
drafts == <<"d", "r", "a", "f", "t", "s">>
archive == <<"a", "r", "c", "h", "i", "v", "e">>

PROTECTED_MAILBOX_ROLES == {inbox, spam, trash, sent, drafts, archive, junk}
PROTECTED_MAILBOX_NAMES == {inbox, spam, junk, trash, sent, drafts, archive}

\* The role and name a mailbox of the account may carry.
MailboxKinds ==
  { <<Js(inbox), Js(<<"I", "n", "b", "o", "x">>)>>,
    <<Null, Js(<<"N", "o", "t", "e", "s">>)>>,
    <<Null, Js(<<" ", "T", "r", "a", "s", "h", " ">>)>>,
    <<Js(<< >>), Js(<<"J", "u", "n", "k">>)>>,
    <<Js(<<"T", "r", "a", "s", "h", " ">>), Js(<<"B", "i", "n">>)>>,
    <<Js(<<"i", "m", "p", "o", "r", "t", "a", "n", "t">>), Js(<<"A", "r", "c", "h", "i", "v", "e">>)>>,
    <<Js(<<" ">>), Js(<<"S", "E", "N", "T">>)>>,
    <<Null, Null>> }

\* The index of the first element satisfying Test, 0 for none.
FindIndex(s, Test(_)) ==
  LET hits == {i \in DOMAIN s : Test(s[i])}
  IN  IF hits = {} THEN 0 ELSE CHOOSE i \in hits : \A j \in hits : i <= j

\* The check that looks at the role alone.
assertMailboxCanBeDeleted_RoleOnly(boxes, mailboxId) ==
  LET i == FindIndex(boxes, LAMBDA m : m.id = mailboxId)
  IN  IF i = 0 THEN "NotFound"
      ELSE IF boxes[i].role.isString
                /\ toLowerCase(trim(boxes[i].role.chars)) \in PROTECTED_MAILBOX_ROLES
      THEN "ProtectedRole"
      ELSE ""

\* The error assertMailboxCanBeDeleted throws, "" when it returns.
assertMailboxCanBeDeleted(boxes, mailboxId) ==
  LET i == FindIndex(boxes, LAMBDA m : m.id = mailboxId)
  IN  IF i = 0 THEN "NotFound"
      ELSE LET mailbox == boxes[i]
               role == IF mailbox.role.isString
                       THEN toLowerCase(trim(mailbox.role.chars)) ELSE << >>
               name == IF mailbox.name.isString
                       THEN toLowerCase(trim(mailbox.name.chars)) ELSE << >>
           IN  IF role # << >> /\ role \in PROTECTED_MAILBOX_ROLES
               THEN "ProtectedRole"
               ELSE IF role = << >> /\ name # << >> /\ name \in PROTECTED_MAILBOX_NAMES
               THEN "ProtectedName"
               ELSE ""

\* A getSession that asks the server whatever it holds.
getSession_AlwaysFetches(p, tool, next) ==
  \/ /\ At(p, tool, "session")
     /\ Issue(p, Call("session", NoUrl))
     /\ Goto(p, "fetching")
     /\ UNCHANGED session
  \/ /\ At(p, tool, "fetching")
     /\ UNCHANGED calls
     /\ \/ session' = session + 1 /\ Goto(p, next)
        \/ UNCHANGED session /\ Finish(p, Err("SessionError"))

\* await this.getSession(): the cached session, or one GET of the session
\* resource. The caller waits for the answer ("fetching") and only then
\* assigns this.session, so a caller that asks meanwhile finds no session
\* either. The GET may fail.
getSession(p, tool, next) ==
  \/ /\ At(p, tool, "session")
     /\ IF session > 0
        THEN Goto(p, next) /\ UNCHANGED <<session, calls>>
        ELSE /\ Issue(p, Call("session", NoUrl))
             /\ Goto(p, "fetching")
             /\ UNCHANGED session
  \/ /\ At(p, tool, "fetching")
     /\ UNCHANGED calls
     /\ \/ session' = session + 1 /\ Goto(p, next)
        \/ UNCHANGED session /\ Finish(p, Err("SessionError"))

\* const mailboxes = await c.listMailboxes()
listMailboxes(p, tool, next) ==
  /\ At(p, tool, "list")
  /\ Issue(p, Call("Mailbox/get", NoUrl))
  /\ listing' = [listing EXCEPT ![p] = mailboxes]
  /\ Goto(p, next)

\* ----------------------------------------------------------- delete_mailbox
delete_mailbox_invoke(p) ==
  /\ \E id \in {M1, M2, MGone} :
       Invoke(p, "delete_mailbox", Args(id, {}, NoTz, ""), MaxMailInvocations)
  /\ Goto(p, "session")
  /\ UNCHANGED <<mail, store, uids, seen>>

delete_mailbox_session(p) ==
  /\ getSession(p, "delete_mailbox", "list")
  /\ UNCHANGED <<store, uids, op, arg, listing, rights, existing, seen, started,
                 mailboxes, identities, emails, submissions, picked>>

delete_mailbox_list(p) ==
  /\ listMailboxes(p, "delete_mailbox", "listed")
  /\ UNCHANGED <<mail, store, uids, op, arg, rights, existing, seen, started>>

\* The destroy sent whatever the listing says of the target.
delete_mailbox_destroy_Unguarded(p) ==
  /\ At(p, "delete_mailbox", "listed")
  /\ Issue(p, Call("Mailbox/set", arg[p].id))
  /\ mailboxes' = SelectSeq(mailboxes, LAMBDA m : m.id # arg[p].id)
  /\ Finish(p, Ok)
  /\ UNCHANGED <<store, uids, op, arg, listing, rights, existing, seen, started,
                 session, identities, emails, submissions, picked>>

\* assertMailboxCanBeDeleted(mailboxes, mailboxId); await c.deleteMailbox(mailboxId):
\* Mailbox/set destroys a mailbox the account has, and answers notDestroyed
\* for one it has not.
delete_mailbox_destroy(p) ==
  /\ At(p, "delete_mailbox", "listed")
  /\ LET refusal == assertMailboxCanBeDeleted(listing[p], arg[p].id)
     IN  IF refusal # ""
         THEN /\ Finish(p, Err(refusal))
              /\ UNCHANGED <<calls, mailboxes>>
         ELSE /\ Issue(p, Call("Mailbox/set", arg[p].id))
              /\ IF \E i \in DOMAIN mailboxes : mailboxes[i].id = arg[p].id
                 THEN /\ mailboxes' = SelectSeq(mailboxes, LAMBDA m : m.id # arg[p].id)
                      /\ Finish(p, Ok)
                 ELSE /\ UNCHANGED mailboxes
                      /\ Finish(p, Err("SetError"))
  /\ UNCHANGED <<store, uids, op, arg, listing, rights, existing, seen, started,
                 session, identities, emails, submissions, picked>>

\* --------------------------------------------------------------- send_email
Identity(id, email, mayDelete) == [id |-> id, email |-> email, mayDelete |-> mayDelete]
Alias == Identity(<<"i1">>, <<"a", "@", "x">>, TRUE)
Main == Identity(<<"i2">>, <<"b", "@", "x">>, FALSE)

\* The ids the account gives to the messages and submissions it creates.
EmailIds == <<<<"e1">>, <<"e2">>, <<"e3">>, <<"e4">>>>
SubmissionIds == <<<<"s1">>, <<"s2">>, <<"s3">>, <<"s4">>>>

Email(id, mailboxIds, keywords, from) ==
  [id |-> id, mailboxIds |-> mailboxIds, keywords |-> keywords, from |-> from]
Submission(id, emailId, identityId) ==
  [id |-> id, emailId |-> emailId, identityId |-> identityId]

\* RegExp test of a literal, case-insensitive: needle occurs in the lowered text.
TestIgnoreCase(needle, text) ==
  LET lowered == toLowerCase(text)
  IN  \E i \in 1..(Len(text) - Len(needle) + 1) :
        SubSeq(lowered, i, i + Len(needle) - 1) = needle

\* The lookup that tries the name before the role.
FindMailbox_NameFirst(boxes, role, stem) ==
  LET byRole == FindIndex(boxes, LAMBDA m : m.role.isString /\ m.role.chars = role)
      byName == FindIndex(boxes, LAMBDA m : m.name.isString /\ TestIgnoreCase(stem, m.name.chars))
  IN  IF byName # 0 THEN boxes[byName].id
      ELSE IF byRole # 0 THEN boxes[byRole].id
      ELSE NoUrl

\* mailboxes.find(m => m.role === role) || mailboxes.find(m => /stem/i.test(m.name || ''))
FindMailbox(boxes, role, stem) ==
  LET byRole == FindIndex(boxes, LAMBDA m : m.role.isString /\ m.role.chars = role)
      byName == FindIndex(boxes, LAMBDA m : m.name.isString /\ TestIgnoreCase(stem, m.name.chars))
  IN  IF byRole # 0 THEN boxes[byRole].id
      ELSE IF byName # 0 THEN boxes[byName].id
      ELSE NoUrl

\* The selection that falls back to the fixed or first identity when from
\* matches none.
SelectIdentity_FallsBack(ids, from) ==
  LET byFrom == FindIndex(ids, LAMBDA i : toLowerCase(i.email) = toLowerCase(from.chars))
      fixed == FindIndex(ids, LAMBDA i : i.mayDelete = FALSE)
  IN  IF from.isString /\ byFrom # 0 THEN ids[byFrom]
      ELSE IF fixed # 0 THEN ids[fixed] ELSE ids[1]

\* input.from ? identities.find(email equal ignoring case)
\*            : identities.find(i => i.mayDelete === false) || identities[0]
SelectIdentity(ids, from) ==
  LET byFrom == FindIndex(ids, LAMBDA i : toLowerCase(i.email) = toLowerCase(from.chars))
      fixed == FindIndex(ids, LAMBDA i : i.mayDelete = FALSE)
  IN  IF from.isString /\ from.chars # << >>
      THEN (IF byFrom # 0 THEN ids[byFrom] ELSE Identity(NoUrl, << >>, TRUE))
      ELSE IF fixed # 0 THEN ids[fixed] ELSE ids[1]


send_email_invoke(p) ==
  /\ \E from \in {Null, Js(<<"A", "@", "X">>), Js(<<"z", "@", "x">>)},
          body \in {<<"", "">>, <<"t", "">>, <<"t", "h">>} :
       Invoke(p, "send_email", SendArgs(NoUrl, {}, NoTz, "", from, body[1], body[2]),
              MaxMailInvocations)
  /\ picked' = [picked EXCEPT ![p] = NoPick]
  /\ Goto(p, "session")
  /\ UNCHANGED <<store, uids, seen, session, mailboxes, identities, emails, submissions>>

send_email_session(p) ==
  /\ getSession(p, "send_email", "identities")
  /\ UNCHANGED <<store, uids, op, arg, listing, rights, existing, seen, started,
                 mailboxes, identities, emails, submissions, picked>>

\* The body check that wants exactly one of the two bodies.
MissingBody_UnlessExactlyOne(a) == (a.textBody = "") = (a.htmlBody = "")

\* if (!input.textBody && !input.htmlBody): an empty string is falsy too.
MissingBody(a) == a.textBody = "" /\ a.htmlBody = ""

\* const identities = await this.getIdentities(), the identity selection and
\* the body check.
send_email_identities(p) ==
  /\ At(p, "send_email", "identities")
  /\ Issue(p, Call("Identity/get", NoUrl))
  /\ IF identities = << >>
     THEN Finish(p, Err("NoIdentities")) /\ UNCHANGED picked
     ELSE LET selectedIdentity == SelectIdentity(identities, arg[p].from)
          IN  IF selectedIdentity.id = NoUrl
              THEN Finish(p, Err("NoMatchingIdentity")) /\ UNCHANGED picked
              ELSE IF MissingBody(arg[p])
              THEN Finish(p, Err("MissingBody")) /\ UNCHANGED picked
              ELSE /\ picked' = [picked EXCEPT ![p].identity = selectedIdentity.id]
                   /\ Goto(p, "list")
  /\ UNCHANGED <<store, uids, op, arg, listing, rights, existing, seen, started,
                 session, mailboxes, identities, emails, submissions>>

send_email_list(p) ==
  /\ listMailboxes(p, "send_email", "listed")
  /\ UNCHANGED <<mail, store, uids, op, arg, rights, existing, seen, started>>

\* A back-reference to the creation id of an earlier call of the same batch
\* ('#' + id), and none.
Ref(id) == <<"#", id>>
NoRef == << >>

\* One method call of a batch: its name, the creation id of the object it
\* creates, the mailboxIds and keywords it sets (for EmailSubmission/set,
\* those of onSuccessUpdateEmail), the emailId of the submission and the key of
\* onSuccessUpdateEmail.
MethodCall(name, creates, mailboxIds, keywords, emailRef, updateRef) ==
  [name |-> name, creates |-> creates, mailboxIds |-> mailboxIds,
   keywords |-> keywords, emailRef |-> emailRef, updateRef |-> updateRef]

\* The batch with the submission ahead of the message it refers to.
SendBatch_SubmissionFirst(draftsId, sentId) ==
  << MethodCall("EmailSubmission/set", "submission", {sentId}, {"$seen"},
                Ref("draft"), Ref("draft")),
     MethodCall("Email/set", "draft", {draftsId}, {"$draft"}, NoRef, NoRef) >>

\* req.methodCalls of sendEmail
SendBatch(draftsId, sentId) ==
  << MethodCall("Email/set", "draft", {draftsId}, {"$draft"}, NoRef, NoRef),
     MethodCall("EmailSubmission/set", "submission", {sentId}, {"$seen"},
                Ref("draft"), Ref("draft")) >>

\* What the client reads in the answer: emailRes.created.draft.id,
\* subRes.created.submission.id, and whether the answer reports an error
\* (notCreated or a method error) at all.
Answer(emailId, submissionId, reported) ==
  [emailId |-> emailId, submissionId |-> submissionId, reported |-> reported]
NoAnswer == Answer(NoUrl, NoUrl, FALSE)

\* A JMAP request as it leaves the client, with its batch and its answer.
JmapCall(m, batch, answer) == [batch |-> batch, answer |-> answer] @@ Call(m, NoUrl)

\* The account runs the calls of a batch in order. accepts says how far it is
\* willing to go: "none", "email" (the message, not the submission) or "both".
\* A submission is created only if its emailId resolves to a message created
\* by an earlier call of the batch; its onSuccessUpdateEmail then replaces the
\* mailboxIds and keywords of the message its key resolves to.
EmailCallAt(batch) == FindIndex(batch, LAMBDA c : c.name = "Email/set")
SubmissionCallAt(batch) == FindIndex(batch, LAMBDA c : c.name = "EmailSubmission/set")

EmailCreated(batch, accepts) == EmailCallAt(batch) # 0 /\ accepts \in {"email", "both"}

SubmissionCreated(batch, accepts) ==
  /\ accepts = "both"
  /\ SubmissionCallAt(batch) # 0
  /\ EmailCreated(batch, accepts)
  /\ EmailCallAt(batch) < SubmissionCallAt(batch)
  /\ batch[SubmissionCallAt(batch)].emailRef = Ref(batch[EmailCallAt(batch)].creates)

Moved(batch, accepts) ==
  /\ SubmissionCreated(batch, accepts)
  /\ batch[SubmissionCallAt(batch)].updateRef = Ref(batch[EmailCallAt(batch)].creates)

\* The message the batch leaves in the account, when it creates one.
BatchEmail(batch, accepts, id, from) ==
  LET call == IF Moved(batch, accepts) THEN batch[SubmissionCallAt(batch)]
              ELSE batch[EmailCallAt(batch)]
  IN  Email(id, call.mailboxIds, call.keywords, from)

BatchAnswer(batch, accepts, emailId, submissionId, reported) ==
  Answer(IF EmailCreated(batch, accepts) THEN emailId ELSE NoUrl,
         IF SubmissionCreated(batch, accepts) THEN submissionId ELSE NoUrl,
         reported /\ ~SubmissionCreated(batch, accepts))

\* The success test with the created message taken for the success signal.
SendResult_ByEmailId(answer) ==
  IF answer.emailId = NoUrl THEN Err("SubmissionFailed") ELSE OkId(answer.submissionId)

\* if (!submissionId) throw new Error('Email submission failed');
\* return { submissionId, emailId: createdEmailId }
SendResult(answer) ==
  IF answer.submissionId = NoUrl THEN Err("SubmissionFailed") ELSE OkId(answer.submissionId)

\* The Drafts and Sent lookup, the batch request and the reading of its
\* answer.
send_email_submit(p) ==
  /\ At(p, "send_email", "listed")
  /\ LET draftsId == FindMailbox(listing[p], drafts, <<"d", "r", "a", "f", "t">>)
         sentId == FindMailbox(listing[p], sent, sent)
         emailId == EmailIds[Len(emails) + 1]
         submissionId == SubmissionIds[Len(submissions) + 1]
         from == (CHOOSE i \in Range(identities) : i.id = picked[p].identity).email
         batch == SendBatch(draftsId, sentId)
     IN  IF draftsId = NoUrl \/ sentId = NoUrl
         THEN /\ Finish(p, Err("MailboxNotFound"))
              /\ UNCHANGED <<calls, emails, submissions, picked>>
         ELSE \E accepts \in {"none", "email", "both"}, reported \in BOOLEAN :
                LET answer == BatchAnswer(batch, accepts, emailId, submissionId, reported)
                IN  /\ Issue(p, JmapCall("Email/set+EmailSubmission/set", batch, answer))
                    /\ emails' = IF EmailCreated(batch, accepts)
                                 THEN Append(emails, BatchEmail(batch, accepts, emailId, from))
                                 ELSE emails
                    /\ submissions' = IF SubmissionCreated(batch, accepts)
                                      THEN Append(submissions,
                                             Submission(submissionId, emailId, picked[p].identity))
                                      ELSE submissions
                    /\ picked' = [picked EXCEPT ![p].drafts = draftsId, ![p].sent = sentId,
                                                ![p].createdEmailId = answer.emailId,
                                                ![p].submissionId = answer.submissionId]
                    /\ Finish(p, SendResult(answer))
  /\ UNCHANGED <<store, uids, op, arg, listing, rights, existing, seen, started,
                 session, mailboxes, identities>>

\* ------------------------- list_mailboxes, list_emails, search_emails,
\* ----------------------------------------- mark_email_read, move_email
\* The arguments of the mail tools that read or update messages: the emailId
\* or mailboxId, targetMailboxId, read and query.
MailArgs(id, target, read, query) ==
  [target |-> target, read |-> read, query |-> query] @@ Args(id, {}, NoTz, "")

\* One entry of methodResponses, [name, body]: the body of a /get or /query
\* response holds list, that of a /set response holds notUpdated, that of an
\* 'error' response holds type and description only.
MethodResponse(name, hasList, list, notUpdated) ==
  [name |-> name, hasList |-> hasList, list |-> list, notUpdated |-> notUpdated]
ErrorResponse == MethodResponse("error", FALSE, << >>, {})
ListResponse(name, list) == MethodResponse(name, TRUE, list, {})
SetResponse(notUpdated) == MethodResponse("Email/set", FALSE, << >>, notUpdated)

\* A JMAP request as it leaves the client, with the methodResponses of its
\* answer.
JmapAnswered(m, id, responses) == [responses |-> responses] @@ Call(m, id)

\* res.methodResponses[i]?.[1]?.list || []   (i counts from 1 here)
ListAt(responses, i) ==
  IF i \in DOMAIN responses /\ responses[i].hasList THEN responses[i].list ELSE << >>

\* res.methodResponses[i]?.[1]?.notUpdated?.[emailId]
NotUpdatedAt(responses, i, emailId) ==
  i \in DOMAIN responses /\ emailId \in responses[i].notUpdated

\* The account answers Mailbox/get with its mailboxes, or refuses the method.
MailboxGetResponses(fails) ==
  << IF fails THEN ErrorResponse ELSE ListResponse("Mailbox/get", mailboxes) >>

\* The account answers Email/query and the Email/get that refers to its ids.
\* fails is "none", "query" or "get"; with the query refused the back-reference
\* of Email/get does not resolve and Email/get is answered with an error too.
QueryGetResponses(found, fails) ==
  << IF fails = "query" THEN ErrorResponse ELSE ListResponse("Email/query", found),
     IF fails = "none" THEN ListResponse("Email/get", found) ELSE ErrorResponse >>

\* The messages a filter selects: inMailbox, none, or text (here the text is
\* looked for in the sender's address).
InMailbox(mailboxId) ==
  SelectSeq(emails, LAMBDA e : mailboxId = NoUrl \/ mailboxId \in e.mailboxIds)
WithText(query) == SelectSeq(emails, LAMBDA e : TestIgnoreCase(toLowerCase(query), e.from))

\* The account's answer to Email/set update of one message: the message is
\* updated, or listed in notUpdated (unknown message, unknown mailbox), or the
\* method is refused.
SetOutcome(emailId, mailboxIds, fails) ==
  IF fails THEN "error"
  ELSE IF /\ \E i \in DOMAIN emails : emails[i].id = emailId
          /\ \A m \in mailboxIds : \E i \in DOMAIN mailboxes : mailboxes[i].id = m
       THEN "updated" ELSE "notUpdated"
SetResponses(emailId, outcome) ==
  << IF outcome = "error" THEN ErrorResponse
     ELSE SetResponse(IF outcome = "notUpdated" THEN {emailId} ELSE {}) >>

list_mailboxes_invoke(p) ==
  /\ Invoke(p, "list_mailboxes", NoArg, MaxReadInvocations)
  /\ Goto(p, "session")
  /\ UNCHANGED <<mail, store, uids, seen>>

list_mailboxes_session(p) ==
  /\ getSession(p, "list_mailboxes", "request")
  /\ UNCHANGED <<store, uids, op, arg, listing, rights, existing, seen, started,
                 mailboxes, identities, emails, submissions, picked>>

\* const mailboxes = await c.listMailboxes(); return asText(mailboxes)
list_mailboxes_request(p) ==
  /\ At(p, "list_mailboxes", "request")
  /\ \E fails \in BOOLEAN :
       LET responses == MailboxGetResponses(fails)
       IN  /\ Issue(p, JmapAnswered("Mailbox/get", NoUrl, responses))
           /\ listing' = [listing EXCEPT ![p] = ListAt(responses, 1)]
  /\ Finish(p, Ok)
  /\ UNCHANGED <<mail, store, uids, op, arg, rights, existing, seen, started>>

list_emails_invoke(p) ==
  /\ \E mailboxId \in {NoUrl, M1, MGone} :
       Invoke(p, "list_emails", MailArgs(mailboxId, NoUrl, FALSE, << >>), MaxReadInvocations)
  /\ Goto(p, "session")
  /\ UNCHANGED <<mail, store, uids, seen>>

list_emails_session(p) ==
  /\ getSession(p, "list_emails", "request")
  /\ UNCHANGED <<store, uids, op, arg, listing, rights, existing, seen, started,
                 mailboxes, identities, emails, submissions, picked>>

\* const emails = await c.listEmails(mailboxId, limit); return asText(emails)
list_emails_request(p) ==
  /\ At(p, "list_emails", "request")
  /\ \E fails \in {"none", "query", "get"} :
       LET responses == QueryGetResponses(InMailbox(arg[p].id), fails)
       IN  /\ Issue(p, JmapAnswered("Email/query+Email/get", arg[p].id, responses))
           /\ listing' = [listing EXCEPT ![p] = ListAt(responses, 2)]
  /\ Finish(p, Ok)
  /\ UNCHANGED <<mail, store, uids, op, arg, rights, existing, seen, started>>

search_emails_invoke(p) ==
  /\ \E query \in {<<"A">>, <<"z">>} :
       Invoke(p, "search_emails", MailArgs(NoUrl, NoUrl, FALSE, query), MaxReadInvocations)
  /\ Goto(p, "session")
  /\ UNCHANGED <<mail, store, uids, seen>>

search_emails_session(p) ==
  /\ getSession(p, "search_emails", "request")
  /\ UNCHANGED <<store, uids, op, arg, listing, rights, existing, seen, started,
                 mailboxes, identities, emails, submissions, picked>>

\* const emails = await c.searchEmails(query, limit); return asText(emails)
search_emails_request(p) ==
  /\ At(p, "search_emails", "request")
  /\ \E fails \in {"none", "query", "get"} :
       LET responses == QueryGetResponses(WithText(arg[p].query), fails)
       IN  /\ Issue(p, JmapAnswered("Email/query+Email/get", NoUrl, responses))
           /\ listing' = [listing EXCEPT ![p] = ListAt(responses, 2)]
  /\ Finish(p, Ok)
  /\ UNCHANGED <<mail, store, uids, op, arg, rights, existing, seen, started>>

mark_email_read_invoke(p) ==
  /\ \E emailId \in {EmailIds[1], EmailIds[4]}, read \in BOOLEAN :
       Invoke(p, "mark_email_read", MailArgs(emailId, NoUrl, read, << >>), MaxReadInvocations)
  /\ Goto(p, "session")
  /\ UNCHANGED <<mail, store, uids, seen>>

mark_email_read_session(p) ==
  /\ getSession(p, "mark_email_read", "request")
  /\ UNCHANGED <<store, uids, op, arg, listing, rights, existing, seen, started,
                 mailboxes, identities, emails, submissions, picked>>

\* await c.markEmailRead(emailId, read); return 'OK: read' or 'OK: unread'
mark_email_read_request(p) ==
  /\ At(p, "mark_email_read", "request")
  /\ \E fails \in BOOLEAN :
       LET emailId == arg[p].id
           keywords == IF arg[p].read THEN {"$seen"} ELSE {}
           outcome == SetOutcome(emailId, {}, fails)
           responses == SetResponses(emailId, outcome)
       IN  /\ Issue(p, JmapAnswered("Email/set", emailId, responses))
           /\ emails' = IF outcome = "updated"
                        THEN [i \in DOMAIN emails |->
                                IF emails[i].id = emailId
                                THEN [emails[i] EXCEPT !.keywords = keywords]
                                ELSE emails[i]]
                        ELSE emails
           /\ IF NotUpdatedAt(responses, 1, emailId)
              THEN Finish(p, Err("FailedToUpdate"))
              ELSE Finish(p, Ok)
  /\ UNCHANGED <<store, uids, op, arg, listing, rights, existing, seen, started,
                 session, mailboxes, identities, submissions, picked>>

move_email_invoke(p) ==
  /\ \E emailId \in {EmailIds[1], EmailIds[4]}, targetMailboxId \in {M2, MGone} :
       Invoke(p, "move_email", MailArgs(emailId, targetMailboxId, FALSE, << >>),
              MaxReadInvocations)
  /\ Goto(p, "session")
  /\ UNCHANGED <<mail, store, uids, seen>>

move_email_session(p) ==
  /\ getSession(p, "move_email", "request")
  /\ UNCHANGED <<store, uids, op, arg, listing, rights, existing, seen, started,
                 mailboxes, identities, emails, submissions, picked>>

\* await c.moveEmail(emailId, targetMailboxId); return 'OK'
move_email_request(p) ==
  /\ At(p, "move_email", "request")
  /\ \E fails \in BOOLEAN :
       LET emailId == arg[p].id
           mailboxIds == {arg[p].target}
           outcome == SetOutcome(emailId, mailboxIds, fails)
           responses == SetResponses(emailId, outcome)
       IN  /\ Issue(p, JmapAnswered("Email/set", emailId, responses))
           /\ emails' = IF outcome = "updated"
                        THEN [i \in DOMAIN emails |->
                                IF emails[i].id = emailId
                                THEN [emails[i] EXCEPT !.mailboxIds = mailboxIds]
                                ELSE emails[i]]
                        ELSE emails
           /\ IF NotUpdatedAt(responses, 1, emailId)
              THEN Finish(p, Err("FailedToMove"))
              ELSE Finish(p, Ok)
  /\ UNCHANGED <<store, uids, op, arg, listing, rights, existing, seen, started,
                 session, mailboxes, identities, submissions, picked>>

\* -------------------------------------------------------------- delete_email
\* A lookup that takes the first mailbox of the listing for Trash.
FindTrash_FirstBox(boxes) == IF boxes = << >> THEN NoUrl ELSE boxes[1].id

\* mailboxes.find(m => m.role === 'trash') || mailboxes.find(m => /trash/i.test(m.name || ''))
FindTrash(boxes) == FindMailbox(boxes, trash, trash)

\* An Email/set update as it leaves the client: the mailboxIds it sets.
MoveAnswered(emailId, mailboxIds, responses) ==
  [mailboxIds |-> mailboxIds] @@ JmapAnswered("Email/set", emailId, responses)

delete_email_invoke(p) ==
  /\ \E emailId \in {EmailIds[1], EmailIds[2], EmailIds[4]} :
       Invoke(p, "delete_email", MailArgs(emailId, NoUrl, FALSE, << >>), MaxReadInvocations)
  /\ Goto(p, "session")
  /\ UNCHANGED <<mail, store, uids, seen>>

delete_email_session(p) ==
  /\ getSession(p, "delete_email", "list")
  /\ UNCHANGED <<store, uids, op, arg, listing, rights, existing, seen, started,
                 mailboxes, identities, emails, submissions, picked>>

\* const mailboxes = await this.listMailboxes(); const trash = ...;
\* if (!trash) throw new Error('Trash mailbox not found')
delete_email_list(p) ==
  /\ At(p, "delete_email", "list")
  /\ \E fails \in BOOLEAN :
       LET responses == MailboxGetResponses(fails)
       IN  /\ Issue(p, JmapAnswered("Mailbox/get", NoUrl, responses))
           /\ listing' = [listing EXCEPT ![p] = ListAt(responses, 1)]
           /\ IF FindTrash(ListAt(responses, 1)) = NoUrl
              THEN Finish(p, Err("TrashNotFound"))
              ELSE Goto(p, "move")
  /\ UNCHANGED <<mail, store, uids, op, arg, rights, existing, seen, started>>

\* await this.moveEmail(emailId, trash.id); return 'OK'
delete_email_move(p) ==
  /\ At(p, "delete_email", "move")
  /\ \E fails \in BOOLEAN :
       LET emailId == arg[p].id
           mailboxIds == {FindTrash(listing[p])}
           outcome == SetOutcome(emailId, mailboxIds, fails)
           responses == SetResponses(emailId, outcome)
       IN  /\ Issue(p, MoveAnswered(emailId, mailboxIds, responses))
           /\ emails' = IF outcome = "updated"
                        THEN [i \in DOMAIN emails |->
                                IF emails[i].id = emailId
                                THEN [emails[i] EXCEPT !.mailboxIds = mailboxIds]
                                ELSE emails[i]]
                        ELSE emails
           /\ IF NotUpdatedAt(responses, 1, emailId)
              THEN Finish(p, Err("FailedToMove"))
              ELSE Finish(p, Ok)
  /\ UNCHANGED <<store, uids, op, arg, listing, rights, existing, seen, started,
                 session, mailboxes, identities, submissions, picked>>

\* ------------------------------------------------------------ specifications
InitLocals ==
  /\ op = [p \in Procs |-> "idle"]
  /\ arg = [p \in Procs |-> NoArg]
  /\ pc = [p \in Procs |-> "idle"]
  /\ listing = [p \in Procs |-> << >>]
  /\ rights = [p \in Procs |-> NoRights]
  /\ existing = [p \in Procs |-> NoObj]
  /\ seen = [p \in Procs |-> NoObj]
  /\ result = [p \in Procs |-> NoResult]
  /\ calls = [p \in Procs |-> << >>]
  /\ started = 0
  /\ uids = 0
  /\ picked = [p \in Procs |-> NoPick]

\* No mail account is involved.
InitNoMail ==
  /\ session = 0
  /\ mailboxes = << >>
  /\ identities = << >>
  /\ emails = << >>
  /\ submissions = << >>

\* A writable calendar's plainest probe answer.
PlainWritable ==
  ProbeGives(Cups("list", <<PrivItem(<<"read">>), PrivItem(<<"write">>)>>))

\* The account's calendars: one or two, the first with the access and probe
\* answer drawn from access, the second writable.
InitCalWith(access) ==
  /\ service = "caldav"
  /\ calendars \in {<<CalA>>, <<CalA, CalB>>}
  /\ books = <<BookA>>
  /\ \E a \in access :
       /\ acl = [c \in Collections |-> IF c = CalA THEN a[1] ELSE "rw"]
       /\ probe = [c \in Collections |-> IF c = CalA THEN a[2] ELSE PlainWritable]
  /\ calprops = [c \in CalUrls |-> {}]
  /\ objects = << >>
  /\ rev = 0
  /\ InitNoMail
  /\ InitLocals

CalStep(p) ==
  \/ delete_calendar_invoke(p)
  \/ delete_calendar_login(p)
  \/ delete_calendar_list(p)
  \/ delete_calendar_delete(p)
  \/ update_calendar_invoke(p)
  \/ update_calendar_login(p)
  \/ update_calendar_list(p)
  \/ update_calendar_probe(p)
  \/ update_calendar_patch(p)
  \/ create_calendar_event_invoke(p)
  \/ create_calendar_event_login(p)
  \/ create_calendar_event_list(p)
  \/ create_calendar_event_probe(p)
  \/ create_calendar_event_create(p)

\* Concurrent callers: tool invocations interleave at their awaits.
InitCal ==
  InitCalWith({<<"rw", PlainWritable>>, <<"rw", ProbeThrows>>,
               <<"ro", ProbeGives(Cups("single", <<PrivItem(<<"read">>)>>))>>})

NextCal == \E p \in Procs : CalStep(p)

SpecCal == InitCal /\ [][NextCal]_vars

\* One caller, one invocation after the other, over every probe answer.
InitCalSeq ==
  InitCalWith(({"rw"} \X WritableProbes) \cup ({"ro"} \X ReadOnlyProbes))

NextCalSeq == CalStep("p1")

SpecCalSeq == InitCalSeq /\ [][NextCalSeq]_vars

\* The member objects of one calendar and one address book, which the
\* principal may write or only read; callers run the get, update, delete and
\* create tools on them, interleaved.
InitObj ==
  /\ service \in {"caldav", "carddav"}
  /\ calendars = <<CalA>>
  /\ books = <<BookA>>
  /\ \E a \in {<<"rw", PlainWritable>>,
              <<"ro", ProbeGives(Cups("single", <<PrivItem(<<"read">>)>>))>>} :
       /\ acl = [c \in Collections |-> a[1]]
       /\ probe = [c \in Collections |-> a[2]]
  /\ calprops = [c \in CalUrls |-> {}]
  /\ objects = (EvA1 :> [etag |-> 1, data |-> Body0]) @@ (CtA1 :> [etag |-> 2, data |-> Body0])
  /\ rev = 2
  /\ InitNoMail
  /\ InitLocals

ObjStep(p) ==
  \/ get_calendar_event_invoke(p)
  \/ get_calendar_event_login(p)
  \/ get_calendar_event_list(p)
  \/ get_calendar_event_fetch(p)
  \/ update_calendar_event_invoke(p)
  \/ update_calendar_event_login(p)
  \/ update_calendar_event_list(p)
  \/ update_calendar_event_fetch(p)
  \/ update_calendar_event_put(p)
  \/ delete_calendar_event_invoke(p)
  \/ delete_calendar_event_login(p)
  \/ delete_calendar_event_list(p)
  \/ delete_calendar_event_fetch(p)
  \/ delete_calendar_event_delete(p)
  \/ get_contact_invoke(p)
  \/ get_contact_login(p)
  \/ get_contact_list(p)
  \/ get_contact_fetch(p)
  \/ update_contact_invoke(p)
  \/ update_contact_login(p)
  \/ update_contact_list(p)
  \/ update_contact_fetch(p)
  \/ update_contact_put(p)
  \/ delete_contact_invoke(p)
  \/ delete_contact_login(p)
  \/ delete_contact_list(p)
  \/ delete_contact_fetch(p)
  \/ delete_contact_delete(p)
  \/ create_contact_invoke(p)
  \/ create_contact_login(p)
  \/ create_contact_list(p)
  \/ create_contact_create(p)

NextObj == \E p \in Procs : ObjStep(p)

SpecObj == InitObj /\ [][NextObj]_vars

\* No DAV store is involved.
InitNoDav ==
  /\ service = "jmap"
  /\ calendars = << >>
  /\ books = << >>
  /\ acl = [c \in Collections |-> "rw"]
  /\ probe = [c \in Collections |-> PlainWritable]
  /\ calprops = [c \in CalUrls |-> {}]
  /\ objects = << >>
  /\ rev = 0

\* A mail account of two mailboxes, the first of any kind, the second an
\* ordinary folder; callers run delete_mailbox, interleaved.
InitMail ==
  /\ InitNoDav
  /\ session = 0
  /\ \E k \in MailboxKinds : mailboxes = <<Mailbox(M1, k[1], k[2]),
                    Mailbox(M2, Null, Js(<<"P", "r", "o", "j", "e", "c", "t", "s">>))>>
  /\ identities = << >>
  /\ emails = << >>
  /\ submissions = << >>
  /\ InitLocals

MailStep(p) ==
  \/ delete_mailbox_invoke(p)
  \/ delete_mailbox_session(p)
  \/ delete_mailbox_list(p)
  \/ delete_mailbox_destroy(p)

NextMail == \E p \in Procs : MailStep(p)

SpecMail == InitMail /\ [][NextMail]_vars

\* The mailboxes of a sending account: Drafts and Sent known by role, known by
\* name only, or one of them missing.
SendMailboxes ==
  { <<Mailbox(M1, Js(inbox), Js(<<"I", "n", "b", "o", "x">>)),
      Mailbox(M2, Js(drafts), Js(<<"D", "r", "a", "f", "t", "s">>)),
      Mailbox(<<"m3">>, Js(sent), Js(<<"S", "e", "n", "t">>))>>,
    <<Mailbox(M1, Null, Js(<<"M", "y", " ", "D", "R", "A", "F", "T", "S">>)),
      Mailbox(M2, Null, Js(<<"S", "e", "n", "t", " ", "I", "t", "e", "m", "s">>))>>,
    <<Mailbox(M1, Js(drafts), Null), Mailbox(M2, Null, Js(<<"N", "o", "t", "e", "s">>))>>,
    <<Mailbox(M1, Null, Js(<<"N", "o", "t", "e", "s">>)), Mailbox(M2, Js(sent), Null)>>,
    <<Mailbox(M1, Null, Js(<<"S", "e", "n", "t", " ", "d", "r", "a", "f", "t", "s">>)),
      Mailbox(M2, Js(drafts), Js(<<"O", "u", "t">>)),
      Mailbox(<<"m3">>, Js(sent), Null)>>,
    <<Mailbox(M1, Js(<<"D", "r", "a", "f", "t", "s">>), Js(<<"B", "o", "x">>)),
      Mailbox(M2, Null, Js(<<"D", "R", "A", "F", "T", "S", " ", "2">>)),
      Mailbox(<<"m3">>, Null, Js(<<"u", "n", "s", "e", "n", "t">>)),
      Mailbox(<<"m4">>, Null, Js(<<"d", "r", "a", "f", "t">>))>> }

\* A mail account with its identities and mailboxes; callers run send_email,
\* interleaved. The account has two identities and any of the mailbox
\* listings, or fewer identities and mailboxes known by role.
InitSend ==
  /\ InitNoDav
  /\ session = 0
  /\ \/ mailboxes \in SendMailboxes /\ identities = <<Alias, Main>>
     \/ /\ mailboxes \in {boxes \in SendMailboxes : Len(boxes) = 3 /\ boxes[1].role = Js(inbox)}
        /\ identities \in {<< >>, <<Alias>>}
  /\ emails = << >>
  /\ submissions = << >>
  /\ InitLocals

SendStep(p) ==
  \/ send_email_invoke(p)
  \/ send_email_session(p)
  \/ send_email_identities(p)
  \/ send_email_list(p)
  \/ send_email_submit(p)

NextSend == \E p \in Procs : SendStep(p)

SpecSend == InitSend /\ [][NextSend]_vars

\* A mail account of two mailboxes and two messages; callers run the tools
\* that list, search, mark and move messages, interleaved.
InitRead ==
  /\ InitNoDav
  /\ session = 0
  /\ mailboxes = <<Mailbox(M1, Js(inbox), Js(<<"I", "n", "b", "o", "x">>)),
                   Mailbox(M2, Js(archive), Js(<<"A", "r", "c", "h", "i", "v", "e">>))>>
  /\ identities = <<Main>>
  /\ emails = <<Email(EmailIds[1], {M1}, {}, Alias.email),
                Email(EmailIds[2], {M2}, {"$seen"}, Main.email)>>
  /\ submissions = << >>
  /\ InitLocals

ReadStep(p) ==
  \/ list_mailboxes_invoke(p)
  \/ list_mailboxes_session(p)
  \/ list_mailboxes_request(p)
  \/ list_emails_invoke(p)
  \/ list_emails_session(p)
  \/ list_emails_request(p)
  \/ search_emails_invoke(p)
  \/ search_emails_session(p)
  \/ search_emails_request(p)
  \/ mark_email_read_invoke(p)
  \/ mark_email_read_session(p)
  \/ mark_email_read_request(p)
  \/ move_email_invoke(p)
  \/ move_email_session(p)
  \/ move_email_request(p)

NextRead == \E p \in Procs : ReadStep(p)

SpecRead == InitRead /\ [][NextRead]_vars

\* An account of one or two calendars and one address book, the first calendar
\* writable, or read-only with a privilege probe that tells or does not tell;
\* callers run the tools that address a whole collection, interleaved.
InitColl ==
  /\ service \in {"caldav", "carddav"}
  /\ calendars \in {<<CalA>>, <<CalA, CalB>>}
  /\ books = <<BookA>>
  /\ \E a \in {<<"rw", PlainWritable>>, <<"ro", ProbeThrows>>} :
       /\ acl = [c \in Collections |-> IF c = CalA THEN a[1] ELSE "rw"]
       /\ probe = [c \in Collections |-> IF c = CalA THEN a[2] ELSE PlainWritable]
  /\ calprops = [c \in CalUrls |-> {}]
  /\ objects = (EvA1 :> [etag |-> 1, data |-> Body0]) @@ (CtA1 :> [etag |-> 2, data |-> Body0])
  /\ rev = 2
  /\ InitNoMail
  /\ InitLocals

CollStep(p) ==
  \/ create_calendar_invoke(p)
  \/ create_calendar_login(p)
  \/ create_calendar_make(p)
  \/ update_calendar_invoke(p)
  \/ update_calendar_login(p)
  \/ update_calendar_list(p)
  \/ update_calendar_probe(p)
  \/ update_calendar_patch(p)
  \/ delete_calendar_invoke(p)
  \/ delete_calendar_login(p)
  \/ delete_calendar_list(p)
  \/ delete_calendar_delete(p)
  \/ list_calendar_events_invoke(p)
  \/ list_calendar_events_login(p)
  \/ list_calendar_events_list(p)
  \/ list_calendar_events_fetch(p)
  \/ create_calendar_event_invoke(p)
  \/ create_calendar_event_login(p)
  \/ create_calendar_event_list(p)
  \/ create_calendar_event_probe(p)
  \/ create_calendar_event_create(p)
  \/ list_contacts_invoke(p)
  \/ list_contacts_login(p)
  \/ list_contacts_list(p)
  \/ list_contacts_fetch(p)
  \/ create_contact_invoke(p)
  \/ create_contact_login(p)
  \/ create_contact_list(p)
  \/ create_contact_create(p)

NextColl == \E p \in Procs : CollStep(p)

SpecColl == InitColl /\ [][NextColl]_vars

\* The datetime texts handed to the conversions: every full and half hour of
\* 7 and 8 March and of 1 November 2026, and texts of other shapes.
WellFormed ==
  {IsoText(md[1], md[2], h, mi) : md \in {<<3, 7>>, <<3, 8>>, <<11, 1>>}, h \in 0..23, mi \in {0, 30}}
OtherShapes ==
  { IsoText(3, 8, 3, 30) \o <<Char("Z")>>,
    IsoText(3, 8, 3, 30) \o <<Char("+"), Digits(2, 5), Char(":"), Digits(2, 30)>>,
    IsoText(3, 8, 3, 30) \o <<Char("-"), Digits(2, 4), Char(":"), Digits(2, 0)>>,
    IsoText(3, 8, 3, 30) \o <<Char("."), Digits(3, 0)>>,
    toISOString(DateUTC(3, 8, 3, 30)),
    SubSeq(IsoText(3, 8, 3, 30), 1, 5),
    SubSeq(IsoText(3, 8, 3, 30), 1, 9),
    <<Digits(4, 2026), Char("-"), Digits(2, 3), Char("-"), Digits(2, 8), Char("T"),
      Digits(1, 3), Char(":"), Digits(2, 30), Char(":"), Digits(2, 0)>>,
    <<Char(" ")>> \o IsoText(3, 8, 3, 30),
    <<Char("not"), Char("-"), Char("a"), Char("-"), Char("date")>>,
    << >> }
TzInputs ==
  {TzArgs(text, tzId, machine) :
     text \in WellFormed \cup OtherShapes,
     tzId \in {"America/New_York", "America/Chicago", "UTC", "Asia/Tokyo", "Asia/Kolkata"},
     machine \in {"UTC", "America/New_York"}}

\* The texts handed to extractCalendarTimezone: the blob of the tests, a
\* calendar without VTIMEZONE, one whose only "TZID:" ends the name of another
\* property, one whose TZID value is padded with spaces, one whose TZID line
\* has no value, the empty text, and no text at all.
Vtimezones ==
  { Defined(JoinLines(<< <<"BEGIN:", "VCALENDAR">>, <<"BEGIN:", "VTIMEZONE">>,
                         <<"TZID:", "America/New_York">>, <<"BEGIN:", "STANDARD">>,
                         <<"DTSTART:", "19701101T020000">>, <<"TZOFFSETFROM:", "-0400">>,
                         <<"TZOFFSETTO:", "-0500">>, <<"END:", "STANDARD">>,
                         <<"END:", "VTIMEZONE">>, <<"END:", "VCALENDAR">> >>)),
    Defined(JoinLines(<< <<"BEGIN:", "VCALENDAR">>, <<"END:", "VCALENDAR">> >>)),
    Defined(JoinLines(<< <<"BEGIN:", "VCALENDAR">>, <<"X-MICROSOFT-CDO-", "TZID:", "11">>,
                         <<"END:", "VCALENDAR">> >>)),
    Defined(JoinLines(<< <<"BEGIN:", "VTIMEZONE">>, <<"TZID:", " ", "Asia/Tokyo", " ">>,
                         <<"END:", "VTIMEZONE">> >>)),
    Defined(JoinLines(<< <<"BEGIN:", "VTIMEZONE">>, <<"TZID:">>, <<"END:", "VTIMEZONE">> >>)),
    Defined(<< >>),
    Undefined }

\* The identifiers handed to buildCalendarTimezoneProperty, and the host zone.
BuildInputs ==
  {TzArgs(<< >>, tzId, machine) :
     tzId \in ValidZones \cup {"America/Chicago"}, machine \in {"UTC", "America/New_York"}}

\* A pending call of one of the functions of timezone.ts.
InitTz ==
  /\ InitNoDav
  /\ InitNoMail
  /\ pc = [p \in Procs |-> IF p = "p1" THEN "called" ELSE "idle"]
  /\ \/ /\ op \in {[p \in Procs |-> IF p = "p1" THEN f ELSE "idle"] :
                    f \in {"naiveToUtcIso", "ensureOffsetAware"}}
        /\ \E a \in TzInputs : arg = [p \in Procs |-> IF p = "p1" THEN a ELSE NoArg]
     \/ /\ op = [p \in Procs |-> IF p = "p1" THEN "buildCalendarTimezoneProperty" ELSE "idle"]
        /\ \E a \in BuildInputs : arg = [p \in Procs |-> IF p = "p1" THEN a ELSE NoArg]
     \/ /\ op = [p \in Procs |-> IF p = "p1" THEN "extractCalendarTimezone" ELSE "idle"]
        /\ \E v \in Vtimezones : arg = [p \in Procs |-> IF p = "p1" THEN TextArg(v) ELSE NoArg]
  /\ listing = [p \in Procs |-> << >>]
  /\ rights = [p \in Procs |-> NoRights]
  /\ existing = [p \in Procs |-> NoObj]
  /\ seen = [p \in Procs |-> NoObj]
  /\ result = [p \in Procs |-> NoResult]
  /\ calls = [p \in Procs |-> << >>]
  /\ started = 0
  /\ uids = 0
  /\ picked = [p \in Procs |-> NoPick]

TzStep(p) ==
  \/ naiveToUtcIso_call(p)
  \/ ensureOffsetAware_call(p)
  \/ ensureOffsetAware_again(p)
  \/ buildCalendarTimezoneProperty_call(p)
  \/ extractCalendarTimezone_call(p)

NextTz == \E p \in Procs : TzStep(p)

SpecTz == InitTz /\ [][NextTz]_vars

\* The titles handed to buildIcsEvent: every text of at most two characters
\* over letters, the characters escText replaces and the space, texts with an
\* inner space, and texts longer than the fold width.
TitleChars == {"a", "b", ",", ";", "\\", "\n", "\r", " "}
LongText(n) == [i \in 1..n |-> IF i % 7 = 0 THEN " " ELSE "a"]
Titles ==
  {<< >>} \cup {<<c>> : c \in TitleChars} \cup {<<c, d>> : c, d \in TitleChars}
    \cup {<<"a", " ", "b">>, LongText(64), LongText(65), LongText(100), LongText(150)}

\* The full names handed to buildVCard: every text of at most four characters
\* over two letters, the space, the tab and the comma.
NameChars == {"a", "b", " ", "\t", ","}
FullNames ==
  UNION {[1..n -> NameChars] : n \in 1..4}
    \cup {<<" ", "a", " ", " ", "b", "\t", "a", "b", " ">>, <<"a", " ", "b", " ", "a", " ", "b">>}

\* A pending call of buildIcsEvent or of buildVCard.
InitWire ==
  /\ InitNoDav
  /\ InitNoMail
  /\ pc = [p \in Procs |-> IF p = "p1" THEN "called" ELSE "idle"]
  /\ \/ /\ op = [p \in Procs |-> IF p = "p1" THEN "buildIcsEvent" ELSE "idle"]
        /\ \E title \in Titles, location \in {<< >>, <<"R", "m", ",", "1">>} :
             arg = [p \in Procs |-> IF p = "p1" THEN EventArg(title, location) ELSE NoArg]
     \/ /\ op = [p \in Procs |-> IF p = "p1" THEN "buildVCard" ELSE "idle"]
        /\ \E fullName \in FullNames :
             arg = [p \in Procs |-> IF p = "p1" THEN ContactArg(fullName) ELSE NoArg]
  /\ listing = [p \in Procs |-> << >>]
  /\ rights = [p \in Procs |-> NoRights]
  /\ existing = [p \in Procs |-> NoObj]
  /\ seen = [p \in Procs |-> NoObj]
  /\ result = [p \in Procs |-> NoResult]
  /\ calls = [p \in Procs |-> << >>]
  /\ started = 0
  /\ uids = 0
  /\ picked = [p \in Procs |-> NoPick]

WireStep(p) ==
  \/ buildIcsEvent_call(p)
  \/ parseIcsSummary_call(p)
  \/ buildVCard_call(p)

NextWire == \E p \in Procs : WireStep(p)

SpecWire == InitWire /\ [][NextWire]_vars

\* The answers a calendar gives to the privilege probe in the account that
\* list_calendars lists.
ListProbes ==
  { ProbeThrows,
    ProbeGives(Cups("absent", << >>)),
    ProbeGives(Cups("single", <<PrivItem(<<"read">>)>>)),
    ProbeGives(Cups("list", <<PrivItem(<<"read">>), PrivItem(<<"write">>)>>)) }

\* An account of no, one or two calendars, each with its own probe answer;
\* callers run list_calendars, interleaved.
InitList ==
  /\ service = "caldav"
  /\ calendars \in {<< >>, <<CalA>>, <<CalA, CalB>>, <<CalB, CalA>>}
  /\ books = <<BookA>>
  /\ acl = [c \in Collections |-> "rw"]
  /\ \E a, b \in ListProbes :
       probe = [c \in Collections |-> IF c = CalA THEN a ELSE IF c = CalB THEN b ELSE PlainWritable]
  /\ calprops = [c \in CalUrls |-> {}]
  /\ objects = << >>
  /\ rev = 0
  /\ InitNoMail
  /\ InitLocals

ListStep(p) ==
  \/ list_calendars_invoke(p)
  \/ list_calendars_login(p)
  \/ list_calendars_list(p)
  \/ list_calendars_map(p)
  \/ list_calendars_settle(p)
  \/ list_calendars_join(p)

NextList == \E p \in Procs : ListStep(p)

SpecList == InitList /\ [][NextList]_vars

\* One caller runs the CalDAV and CardDAV tools one after another on the
\* account of the collection tools.
NextDav == CollStep("p1") \/ ObjStep("p1") \/ ListStep("p1")

SpecDav == InitColl /\ [][NextDav]_vars

\* The mailboxes of an account whose messages are deleted: Trash known by
\* role, by role beside a mailbox named like it, by name only, no Trash at
\* all, a role spelled with a capital, and mailboxes without a name.
TrashMailboxes ==
  { <<Mailbox(M1, Js(inbox), Js(<<"I", "n", "b", "o", "x">>)),
      Mailbox(M2, Js(trash), Js(<<"T", "r", "a", "s", "h">>))>>,
    <<Mailbox(M1, Null, Js(<<"O", "l", "d", " ", "t", "r", "a", "s", "h">>)),
      Mailbox(M2, Js(trash), Js(<<"B", "i", "n">>))>>,
    <<Mailbox(M1, Null, Js(<<"N", "o", "t", "e", "s">>)),
      Mailbox(M2, Null, Js(<<"M", "y", " ", "T", "R", "A", "S", "H", " ", "c", "a", "n">>)),
      Mailbox(<<"m3">>, Null, Js(<<"t", "r", "a", "s", "h">>))>>,
    <<Mailbox(M1, Js(inbox), Js(<<"I", "n", "b", "o", "x">>)),
      Mailbox(M2, Js(archive), Js(<<"A", "r", "c", "h", "i", "v", "e">>))>>,
    <<Mailbox(M1, Js(<<"T", "r", "a", "s", "h">>), Js(<<"B", "i", "n">>)),
      Mailbox(M2, Null, Js(<<"D", "e", "l", "e", "t", "e", "d">>))>>,
    <<Mailbox(M1, Null, Null), Mailbox(M2, Js(trash), Null)>> }

\* A mail account with one of those mailbox sets and two messages that carry
\* keywords; callers delete messages and mark them read or unread, interleaved.
InitKeep ==
  /\ InitNoDav
  /\ session = 0
  /\ mailboxes \in TrashMailboxes
  /\ identities = <<Main>>
  /\ emails = <<Email(EmailIds[1], {M1}, {"$flagged"}, Alias.email),
                Email(EmailIds[2], {M1, M2}, {"$seen", "$draft"}, Main.email)>>
  /\ submissions = << >>
  /\ InitLocals

KeepStep(p) ==
  \/ delete_email_invoke(p)
  \/ delete_email_session(p)
  \/ delete_email_list(p)
  \/ delete_email_move(p)
  \/ mark_email_read_invoke(p)
  \/ mark_email_read_session(p)
  \/ mark_email_read_request(p)

NextKeep == \E p \in Procs : KeepStep(p)

SpecKeep == InitKeep /\ [][NextKeep]_vars

\* A listing in which one collection URL is a prefix of another: a collection
\* below CalA and one below BookA, listed before or after them. The caller
\* creates events and contacts in listed collections and then gets, updates
\* and deletes them with the ids the create tools returned.
NestCal == <<"a", "n">>
NestBook == <<"ab", "n">>

Listings(outer, inner, other) ==
  {<<outer, inner>>, <<inner, outer>>, <<outer>>} \cup
  (IF other = NoUrl THEN {} ELSE {<<outer, other>>})

InitNest ==
  /\ service \in {"caldav", "carddav"}
  /\ calendars \in Listings(CalA, NestCal, CalB)
  /\ books \in Listings(BookA, NestBook, NoUrl)
  /\ acl = [c \in Collections \cup {NestCal, NestBook} |-> "rw"]
  /\ probe = [c \in Collections \cup {NestCal, NestBook} |-> PlainWritable]
  /\ calprops = [c \in CalUrls \cup {NestCal} |-> {}]
  /\ objects = << >>
  /\ rev = 0
  /\ InitNoMail
  /\ InitLocals

\* The ids the create tools have returned: the URLs of the objects made.
CreatedIn(cols) == {u \in DOMAIN objects : Parent(u) \in Range(cols)}

create_calendar_event_invoke_listed(p) ==
  /\ service = "caldav"
  /\ \E id \in Range(calendars) :
       Invoke(p, "create_calendar_event", TimedArgs(id, "t1", EventStart, EventEnd),
              MaxObjInvocations)
  /\ Goto(p, "login")
  /\ UNCHANGED <<mail, store, uids, seen>>

create_contact_invoke_listed(p) ==
  InvokeObj(p, "create_contact", "carddav", Range(books), {"n1"})

get_calendar_event_invoke_created(p) ==
  InvokeObj(p, "get_calendar_event", "caldav", CreatedIn(calendars), {""})
update_calendar_event_invoke_created(p) ==
  InvokeObj(p, "update_calendar_event", "caldav", CreatedIn(calendars), {"t2"})
delete_calendar_event_invoke_created(p) ==
  InvokeObj(p, "delete_calendar_event", "caldav", CreatedIn(calendars), {""})
get_contact_invoke_created(p) ==
  InvokeObj(p, "get_contact", "carddav", CreatedIn(books), {""})
update_contact_invoke_created(p) ==
  InvokeObj(p, "update_contact", "carddav", CreatedIn(books), {"n2"})
delete_contact_invoke_created(p) ==
  InvokeObj(p, "delete_contact", "carddav", CreatedIn(books), {""})

NestStep(p) ==
  \/ create_calendar_event_invoke_listed(p)
  \/ create_calendar_event_login(p)
  \/ create_calendar_event_list(p)
  \/ create_calendar_event_probe(p)
  \/ create_calendar_event_create(p)
  \/ create_contact_invoke_listed(p)
  \/ create_contact_login(p)
  \/ create_contact_list(p)
  \/ create_contact_create(p)
  \/ get_calendar_event_invoke_created(p)
  \/ get_calendar_event_login(p)
  \/ get_calendar_event_list(p)
  \/ get_calendar_event_fetch(p)
  \/ update_calendar_event_invoke_created(p)
  \/ update_calendar_event_login(p)
  \/ update_calendar_event_list(p)
  \/ update_calendar_event_fetch(p)
  \/ update_calendar_event_put(p)
  \/ delete_calendar_event_invoke_created(p)
  \/ delete_calendar_event_login(p)
  \/ delete_calendar_event_list(p)
  \/ delete_calendar_event_fetch(p)
  \/ delete_calendar_event_delete(p)
  \/ get_contact_invoke_created(p)
  \/ get_contact_login(p)
  \/ get_contact_list(p)
  \/ get_contact_fetch(p)
  \/ update_contact_invoke_created(p)
  \/ update_contact_login(p)
  \/ update_contact_list(p)
  \/ update_contact_fetch(p)
  \/ update_contact_put(p)
  \/ delete_contact_invoke_created(p)
  \/ delete_contact_login(p)
  \/ delete_contact_list(p)
  \/ delete_contact_fetch(p)
  \/ delete_contact_delete(p)

NextNest == NestStep("p1")

SpecNest == InitNest /\ [][NextNest]_vars


\* The privilege sets handed to extractDavPrivileges: `privilege` absent, one
\* value, or a list of up to two values; a value is an object of one or two
\* keys, with or without the attribute key, or not an object.
PrivTokens == {"read", "write", "writeContent", "writeProperties", "all", "readFreeBusy"}
PrivValues ==
  {PrivItem(<<k>>) : k \in PrivTokens} \cup
  {PrivItem(<<"_attributes", "read">>), PrivItem(<<"_attributes">>),
   PrivItem(<<"read", "write">>), PrivItem(<<"readFreeBusy", "read">>),
   [obj |-> FALSE, keys |-> << >>]}
PrivilegeSets ==
  {Cups("absent", << >>), Cups("list", << >>)} \cup
  {Cups("single", <<v>>) : v \in PrivValues} \cup
  {Cups("list", <<v>>) : v \in PrivValues} \cup
  {Cups("list", <<v, w>>) : v, w \in PrivValues}

CupsArg(cups) == [cups |-> cups] @@ NoArg

\* A pending call of computeDavRights(extractDavPrivileges(...)).
InitPriv ==
  /\ InitNoDav
  /\ InitNoMail
  /\ pc = [p \in Procs |-> IF p = "p1" THEN "called" ELSE "idle"]
  /\ op = [p \in Procs |-> IF p = "p1" THEN "extractDavPrivileges" ELSE "idle"]
  /\ \E c \in PrivilegeSets : arg = [p \in Procs |-> IF p = "p1" THEN CupsArg(c) ELSE NoArg]
  /\ listing = [p \in Procs |-> << >>]
  /\ rights = [p \in Procs |-> NoRights]
  /\ existing = [p \in Procs |-> NoObj]
  /\ seen = [p \in Procs |-> NoObj]
  /\ result = [p \in Procs |-> NoResult]
  /\ calls = [p \in Procs |-> << >>]
  /\ started = 0
  /\ uids = 0
  /\ picked = [p \in Procs |-> NoPick]

\* The call returns the rights computed from the extracted privileges.
extractDavPrivileges_call(p) ==
  /\ At(p, "extractDavPrivileges", "called")
  /\ rights' = [rights EXCEPT ![p] = computeDavRights(extractDavPrivileges(arg[p].cups))]
  /\ Finish(p, Ok)
  /\ UNCHANGED <<mail, store, uids, op, arg, listing, existing, seen, started, calls>>

NextPriv == \E p \in Procs : extractDavPrivileges_call(p)

SpecPriv == InitPriv /\ [][NextPriv]_vars


\* The lines handed to foldLine: lengths around one, two and three times the
\* fold width, of letters, of spaces, with spaces or a tab on both sides of
\* every fold boundary, with a space in every seventh place, and of escaped
\* characters. A line holds no line break: escText has replaced or removed
\* them in every text that reaches foldLine.
LineLengths == {0, 1, 71, 72, 73, 74, 143, 144, 145, 146, 214, 215, 216, 217}
LineKinds == {"letters", "spaces", "boundary", "tab", "seventh", "escaped"}
FoldLineOf(n, kind) ==
  [i \in 1..n |->
     CASE kind = "letters" -> "a"
       [] kind = "spaces" -> " "
       [] kind = "boundary" -> IF i % FoldWidth \in {0, 1} THEN " " ELSE "a"
       [] kind = "tab" -> IF i % FoldWidth = 1 THEN "\t" ELSE "b"
       [] kind = "seventh" -> IF i % 7 = 0 THEN " " ELSE "a"
       [] kind = "escaped" -> IF i % 2 = 1 THEN "\\" ELSE "n"]
FoldLines == {FoldLineOf(n, kind) : n \in LineLengths, kind \in LineKinds}

LineArg(line) == [line |-> line] @@ NoArg
OkUnfolded(folded, unfolded) == [text |-> folded, unfolded |-> unfolded] @@ Ok

\* A pending call of foldLine.
InitFold ==
  /\ InitNoDav
  /\ InitNoMail
  /\ pc = [p \in Procs |-> IF p = "p1" THEN "called" ELSE "idle"]
  /\ op = [p \in Procs |-> IF p = "p1" THEN "foldLine" ELSE "idle"]
  /\ \E l \in FoldLines : arg = [p \in Procs |-> IF p = "p1" THEN LineArg(l) ELSE NoArg]
  /\ listing = [p \in Procs |-> << >>]
  /\ rights = [p \in Procs |-> NoRights]
  /\ existing = [p \in Procs |-> NoObj]
  /\ seen = [p \in Procs |-> NoObj]
  /\ result = [p \in Procs |-> NoResult]
  /\ calls = [p \in Procs |-> << >>]
  /\ started = 0
  /\ uids = 0
  /\ picked = [p \in Procs |-> NoPick]

\* The call returns the folded text.
foldLine_call(p) ==
  /\ At(p, "foldLine", "called")
  /\ pc' = [pc EXCEPT ![p] = "folded"]
  /\ result' = [result EXCEPT ![p] = OkText(foldLine(arg[p].line))]
  /\ UNCHANGED <<mail, store, uids, op, arg, listing, rights, existing, seen, started, calls>>

\* parseIcsSummary's unfolding of the text foldLine returned.
foldLine_unfold(p) ==
  /\ At(p, "foldLine", "folded")
  /\ Finish(p, OkUnfolded(result[p].text, Unfold(result[p].text)))
  /\ UNCHANGED <<mail, store, uids, op, arg, listing, rights, existing, seen, started, calls>>

NextFold == \E p \in Procs : foldLine_call(p) \/ foldLine_unfold(p)

SpecFold == InitFold /\ [][NextFold]_vars


\* An account of four calendars that declare their timezone differently, one
\* of them holding an event; the caller creates events and lists them, with
\* and without bounds, by both names of the listing tool.
EvNewYork == <<"ny", "e1">>

InitWhen ==
  /\ service = "caldav"
  /\ calendars = <<CalNewYork, CalTokyo, CalEmpty, CalPlain>>
  /\ books = << >>
  /\ acl = [c \in Collections \cup TimedCalUrls |-> "rw"]
  /\ probe = [c \in Collections \cup TimedCalUrls |-> PlainWritable]
  /\ calprops = [c \in CalUrls \cup TimedCalUrls |-> {}]
  /\ objects = (EvNewYork :> [etag |-> 1, data |-> Body0])
  /\ rev = 1
  /\ InitNoMail
  /\ InitLocals

WhenStep(p) ==
  \/ create_calendar_event_invoke_timed(p)
  \/ create_calendar_event_login(p)
  \/ create_calendar_event_list(p)
  \/ create_calendar_event_probe(p)
  \/ create_calendar_event_create(p)
  \/ list_calendar_events_invoke_timed(p)
  \/ list_calendar_events_login(p)
  \/ list_calendar_events_list(p)
  \/ list_calendar_events_fetch(p)
  \/ get_calendar_events_from_fastmail_invoke_timed(p)
  \/ get_calendar_events_from_fastmail_login(p)
  \/ get_calendar_events_from_fastmail_list(p)
  \/ get_calendar_events_from_fastmail_fetch(p)

NextWhen == WhenStep("p1")

SpecWhen == InitWhen /\ [][NextWhen]_vars


\* ------------------------------------------------------------ claims
CallsOf(p, m) == SelectSeq(calls[p], LAMBDA c : c.m = m)
Issued(p, m) == CallsOf(p, m) # << >>
Done(p, tool) == op[p] = tool /\ pc[p] = "done"

\* C1: starting from a store with at least one calendar, after any number of
\* delete_calendar invocations, sequential or interleaved, the store still
\* holds at least one calendar.
C1_AtLeastOneCalendarRemains == Len(calendars) >= 1

TokensOf(r) ==
  UNION {Range(r.cups.items[i].keys) \ {"_attributes"} :
           i \in {j \in DOMAIN r.cups.items : r.cups.items[j].obj}}

WriteTokens == {"write", "writeContent", "writeProperties", "all"}

ExplicitlyReadOnly(r) ==
  ~r.throws /\ TokensOf(r) # {} /\ TokensOf(r) \cap WriteTokens = {}

WriteCallOf(tool) ==
  IF tool = "update_calendar" THEN "davRequest" ELSE "createCalendarObject"

\* C4: create_calendar_event and update_calendar fail with the read-only
\* error, without issuing the write call, exactly when the probe answers with a
\* non-empty privilege set holding none of write, writeContent,
\* writeProperties, all; when the probe throws or answers with an empty set,
\* the write call is issued.
C4_ReadOnlyExactlyWhenExplicit ==
  \A p \in Procs :
    (op[p] \in {"create_calendar_event", "update_calendar"} /\ pc[p] = "done") =>
      LET probed == Issued(p, "propfind")
          blocked == probed /\ ExplicitlyReadOnly(StoreProbe(arg[p].id))
          wrote == Issued(p, WriteCallOf(op[p]))
      IN  /\ (result[p] = Err("ReadOnly")) <=> blocked
          /\ blocked => ~wrote
          /\ (probed /\ ~blocked) => wrote

\* C4 witness: an invocation was refused on an explicit read-only answer.
C4_Witness ==
  \E p \in Procs :
    /\ Done(p, "update_calendar") \/ Done(p, "create_calendar_event")
    /\ result[p] = Err("ReadOnly")
    /\ ExplicitlyReadOnly(StoreProbe(arg[p].id))

UpdateTools == {"update_calendar_event", "update_contact"}
DeleteTools == {"delete_calendar_event", "delete_contact"}
UpdateCalls == {"updateCalendarObject", "updateVCard"}
DeleteCalls == {"deleteCalendarObject", "deleteVCard"}
CreateCalls == {"createCalendarObject", "createVCard"}

WritesOf(p) == SelectSeq(calls[p], LAMBDA c : c.m \in UpdateCalls \cup DeleteCalls \cup CreateCalls)

\* The collection a member tool is aimed at.
TargetCollection(p) ==
  IF op[p] = "create_contact" THEN arg[p].id ELSE Parent(arg[p].id)

OnlyRead(r) == ~r.throws /\ TokensOf(r) = {"read"}

\* C3: every write operation attempted against a collection whose privilege
\* probe succeeds with a privilege set containing only `read` fails with the
\* read-only error and issues no write call to the store.
C3_ReadOnlyBlocksEveryWrite ==
  \A p \in Procs :
    (/\ op[p] \in UpdateTools \cup DeleteTools \cup {"create_contact"}
     /\ OnlyRead(StoreProbe(TargetCollection(p)))) =>
        /\ WritesOf(p) = << >>
        /\ (pc[p] = "done" /\ result[p].err \notin {"AuthError", "NotFound"}) =>
             result[p] = Err("ReadOnly")

\* The object p read with its get tool was replaced since by the other caller.
ReplacedByAnotherSinceRead(p) ==
  /\ seen[p].url = arg[p].id
  /\ arg[p].id \in DOMAIN objects
  /\ objects[arg[p].id].etag # seen[p].etag
  /\ \E q \in Procs \ {p} : objects[arg[p].id].data = BodyOf(q)

\* C5: an update by a caller who read revision r of the object (the etag its
\* get returned) succeeds only if the stored revision is still r: when another
\* writer replaced the object since that read, the write step of the caller's
\* update fails and leaves the other writer's content in the store.
C5_StaleReaderCannotOverwrite ==
  [][\A p \in Procs :
       (/\ op[p] \in UpdateTools /\ pc[p] = "fetched" /\ pc'[p] = "done"
        /\ ReplacedByAnotherSinceRead(p)) =>
           /\ ~result'[p].ok
           /\ objects'[arg[p].id] = objects[arg[p].id]]_vars

\* C6: when two update invocations on the same object, in a collection the
\* principal may write, both fetch the object before either writes (both hold
\* the same fetched etag), the store accepts exactly one of the two conditional
\* writes, the other invocation ends with an error, and the stored body is the
\* accepted writer's body.
C6_OneOfTwoRacingUpdatesWins ==
  \A p, q \in Procs :
    (/\ p # q
     /\ op[p] \in UpdateTools /\ pc[p] = "done" /\ WritesOf(p) # << >>
     /\ op[q] \in UpdateTools /\ pc[q] = "done" /\ WritesOf(q) # << >>
     /\ arg[p].id = arg[q].id
     /\ WritesOf(p)[1].etag = WritesOf(q)[1].etag
     /\ acl[Parent(arg[p].id)] = "rw") =>
        /\ IsSuccess(WritesOf(p)[1].status) # IsSuccess(WritesOf(q)[1].status)
        /\ result[p].ok # result[q].ok
        /\ \A w \in {p, q} : result[w].ok => objects[arg[w].id].data = arg[w].data

\* C6 witness: two updates of the same event raced, one won, one was refused.
C6_Witness ==
  \E p, q \in Procs :
    /\ Done(p, "update_calendar_event") /\ Done(q, "update_calendar_event")
    /\ arg[p].id = arg[q].id
    /\ result[p].ok /\ ~result[q].ok
    /\ WritesOf(q) # << >> /\ WritesOf(p)[1].etag = WritesOf(q)[1].etag
    /\ objects[arg[p].id].data = arg[p].data

\* C7: a non-success answer of the store to an update or delete of an event or
\* contact makes the invocation fail with an error carrying the answer's
\* status; the invocation issues that write call at most once.
C7_NonSuccessSurfacesWithStatus ==
  \A p \in Procs :
    op[p] \in UpdateTools \cup DeleteTools =>
      /\ Len(WritesOf(p)) <= 1
      /\ (pc[p] = "done" /\ WritesOf(p) # << >>) =>
           IF IsSuccess(WritesOf(p)[1].status)
           THEN result[p] = Ok
           ELSE /\ result[p].done /\ ~result[p].ok
                /\ result[p].status = WritesOf(p)[1].status
      /\ (pc[p] # "done") => WritesOf(p) = << >>

\* C7 witness: a delete of a contact was refused for its stale version tag.
C7_Witness ==
  \E p \in Procs :
    /\ Done(p, "delete_contact")
    /\ WritesOf(p) # << >>
    /\ WritesOf(p)[1].status = 412
    /\ result[p] = ErrStatus("ProtocolError", 412)

\* ---- delete_mailbox
ProtectedSet == {inbox, spam, junk, trash, sent, drafts, archive}

\* The entry of p's fetched listing that p's target id names.
Listed(p) == \E i \in DOMAIN listing[p] : listing[p][i].id = arg[p].id
Target(p) == listing[p][CHOOSE i \in DOMAIN listing[p] : listing[p][i].id = arg[p].id]

Destroys(p) == CallsOf(p, "Mailbox/set")

\* The handler got past its listing call and ended.
Decided(p) == Done(p, "delete_mailbox") /\ Issued(p, "Mailbox/get")

RoleIn(m) == m.role.isString /\ m.role.chars \in ProtectedSet
FoldedNameIn(m) == m.name.isString /\ toLowerCase(m.name.chars) \in ProtectedSet

\* C8 as stated: delete_mailbox refuses, with the protected-mailbox error and
\* without a destroy call, whenever the target mailbox's role or its
\* case-folded name is in the protected set; when both match, the role match
\* is the one reported.
C8_RefusesRoleOrFoldedName ==
  \A p \in Procs :
    (Decided(p) /\ Listed(p) /\ (RoleIn(Target(p)) \/ FoldedNameIn(Target(p)))) =>
       /\ result[p].err \in {"ProtectedRole", "ProtectedName"}
       /\ Destroys(p) = << >>
       /\ RoleIn(Target(p)) => result[p].err = "ProtectedRole"

\* A value's text with surrounding white space removed and letters lowered,
\* empty for a value that is no string.
Normal(v) == IF v.isString THEN toLowerCase(trim(v.chars)) ELSE << >>

\* C8 amended: delete_mailbox refuses, without a destroy call, whenever the
\* target's trimmed, lower-cased role is in the protected set (reported as the
\* role refusal, also when the name matches too), or that role is empty and
\* the trimmed, lower-cased name is in the set (reported as the name refusal).
C8_RefusesRoleOrUnsetRoleName ==
  \A p \in Procs :
    (Decided(p) /\ Listed(p)) =>
       LET role == Normal(Target(p).role)
           name == Normal(Target(p).name)
       IN  /\ role \in ProtectedSet =>
                (result[p] = Err("ProtectedRole") /\ Destroys(p) = << >>)
           /\ (role = << >> /\ name \in ProtectedSet) =>
                (result[p] = Err("ProtectedName") /\ Destroys(p) = << >>)

\* C8 witness: a mailbox without role whose padded, capitalised name folds to
\* `trash` was refused by name, and no destroy call was issued.
C8_Witness ==
  \E p \in Procs :
    /\ Decided(p) /\ Listed(p)
    /\ ~Target(p).role.isString
    /\ Target(p).name.isString /\ Target(p).name.chars # trash
    /\ Normal(Target(p).name) = trash
    /\ result[p] = Err("ProtectedName")
    /\ Destroys(p) = << >>

\* C9: delete_mailbox on an id absent from the freshly fetched listing fails
\* with the not-found error and issues no destroy call; on a listed mailbox
\* with no role and a name outside the protected set it issues exactly one
\* destroy call, for that id, after the listing call.
C9_NotFoundOrOneDestroy ==
  \A p \in Procs :
    op[p] = "delete_mailbox" =>
      /\ (Decided(p) /\ ~Listed(p)) =>
           (result[p] = Err("NotFound") /\ Destroys(p) = << >>)
      /\ (Decided(p) /\ Listed(p)
            /\ (~Target(p).role.isString \/ Target(p).role.chars = << >>)
            /\ Normal(Target(p).name) \notin ProtectedSet) =>
           /\ Len(Destroys(p)) = 1
           /\ Destroys(p)[1].url = arg[p].id
           /\ \E i, j \in DOMAIN calls[p] :
                i < j /\ calls[p][i].m = "Mailbox/get" /\ calls[p][j].m = "Mailbox/set"

\* C9 witness: one invocation found its id absent from the listing, another
\* destroyed an ordinary folder with a single call.
C9_Witness ==
  \E p, q \in Procs :
    /\ Decided(p) /\ ~Listed(p) /\ result[p] = Err("NotFound")
    /\ Decided(q) /\ Listed(q) /\ result[q] = Ok /\ Len(Destroys(q)) = 1
    /\ ~Target(q).role.isString

\* ---- send_email
\* The messages of the account that p's ended invocation created.
CreatedBy(p) == {e \in Range(emails) : e.id = picked[p].createdEmailId}

\* C10: the send pipeline is atomic: after a send_email invocation ends,
\* either a submission was created and the message it created is in the Sent
\* mailbox, not in Drafts, and marked seen, or no message created by that
\* invocation remains in any mailbox.
C10_SendIsAtomic ==
  \A p \in Procs :
    Done(p, "send_email") =>
      \/ /\ picked[p].submissionId # NoUrl
         /\ \E e \in CreatedBy(p) :
              /\ picked[p].sent \in e.mailboxIds
              /\ picked[p].drafts \notin e.mailboxIds
              /\ "$seen" \in e.keywords
      \/ /\ picked[p].submissionId = NoUrl
         /\ \A e \in CreatedBy(p) : e.mailboxIds = {}

\* The batch requests p's invocation has submitted.
Batches(p) == CallsOf(p, "Email/set+EmailSubmission/set")

\* Every back-reference of the batch names a creation of an earlier call.
RefsResolve(batch) ==
  \A j \in DOMAIN batch :
    \A r \in {batch[j].emailRef, batch[j].updateRef} \ {NoRef} :
      \E i \in 1..(j - 1) : r = Ref(batch[i].creates)

\* C11: sendEmail submits exactly one request whose batch is, in order, an
\* Email/set creating one message whose only mailbox is Drafts and which
\* carries $draft, then an EmailSubmission/set whose submission references
\* that message by the creation back-reference and whose on-success update
\* targets the same back-reference, setting its mailboxes to exactly {Sent}
\* and its keywords to $seen. Every back-reference names a creation made by an
\* earlier call of the same batch.
C11_OneOrderedBatch ==
  \A p \in Procs :
    op[p] = "send_email" =>
      /\ Len(Batches(p)) <= 1
      /\ (pc[p] = "done" /\ (result[p].ok \/ result[p].err = "SubmissionFailed")) =>
           Len(Batches(p)) = 1
      /\ \A k \in DOMAIN Batches(p) :
           LET batch == Batches(p)[k].batch
           IN  /\ Len(batch) = 2
               /\ batch[1].name = "Email/set"
               /\ batch[1].mailboxIds = {FindMailbox(listing[p], drafts, <<"d", "r", "a", "f", "t">>)}
               /\ batch[1].keywords = {"$draft"}
               /\ batch[2].name = "EmailSubmission/set"
               /\ batch[2].emailRef = Ref(batch[1].creates)
               /\ batch[2].updateRef = Ref(batch[1].creates)
               /\ batch[2].mailboxIds = {FindMailbox(listing[p], sent, sent)}
               /\ batch[2].keywords = {"$seen"}
               /\ RefsResolve(batch)

\* C11 witness: a send went through; its message is in Sent alone, marked seen.
C11_Witness ==
  \E p \in Procs :
    /\ Done(p, "send_email") /\ result[p].ok
    /\ Len(Batches(p)) = 1
    /\ \E e \in CreatedBy(p) : e.mailboxIds = {picked[p].sent} /\ e.keywords = {"$seen"}

\* C12: sendEmail returns a success result if and only if the answer holds a
\* created submission id; when the id is absent, whether or not the answer
\* reports an error and whether or not the message was created, the operation
\* fails with the submission-failed error.
C12_SuccessIffSubmissionId ==
  \A p \in Procs :
    (Done(p, "send_email") /\ Batches(p) # << >>) =>
      LET answer == Batches(p)[1].answer
      IN  /\ result[p].ok <=> answer.submissionId # NoUrl
          /\ answer.submissionId # NoUrl => result[p] = OkId(answer.submissionId)
          /\ answer.submissionId = NoUrl => result[p] = Err("SubmissionFailed")

\* C12 witness: the message was created, the answer reports no error and holds
\* no submission id, and the operation failed.
C12_Witness ==
  \E p \in Procs :
    /\ Done(p, "send_email") /\ Batches(p) # << >>
    /\ Batches(p)[1].answer.emailId # NoUrl
    /\ Batches(p)[1].answer.submissionId = NoUrl
    /\ ~Batches(p)[1].answer.reported
    /\ result[p] = Err("SubmissionFailed")

\* ---- identity selection
\* p's invocation is past the identity selection.
Selected(p) == op[p] = "send_email" /\ Issued(p, "Identity/get")

FromGiven(p) == arg[p].from.isString
MatchesFrom(p, i) == toLowerCase(i.email) = toLowerCase(arg[p].from.chars)
FromMatches(p) == FromGiven(p) /\ \E k \in DOMAIN identities : MatchesFrom(p, identities[k])

\* The first identity of the list satisfying Test: no earlier one does.
IsFirstWith(p, id, Test(_)) ==
  \E k \in DOMAIN identities :
    /\ identities[k].id = id /\ Test(identities[k])
    /\ \A j \in 1..(k - 1) : ~Test(identities[j])

\* The identity chosen when from decides nothing: the first that cannot be
\* deleted, else the first of the list.
IsPrimary(p, id) ==
  IF \E k \in DOMAIN identities : identities[k].mayDelete = FALSE
  THEN IsFirstWith(p, id, LAMBDA i : i.mayDelete = FALSE)
  ELSE identities[1].id = id

\* C13 as stated: the identity selected is the one matching `from` when from
\* is given and matches; otherwise, also when from is given and matches none,
\* the first identity not eligible for deletion, otherwise the first of the
\* list. The operation fails for lack of an identity only when the list is
\* empty.
C13_FallsBackWhenFromUnknown ==
  \A p \in Procs :
    Selected(p) =>
      /\ result[p].err \in {"NoIdentities", "NoMatchingIdentity"} => identities = << >>
      /\ picked[p].identity # NoUrl =>
           IF FromMatches(p)
           THEN IsFirstWith(p, picked[p].identity, LAMBDA i : MatchesFrom(p, i))
           ELSE IsPrimary(p, picked[p].identity)

\* C13 amended: with from given, the identity selected is the first whose
\* address equals from ignoring case, and the operation fails with the
\* no-matching-identity error, submitting nothing, when no address does; with
\* from not given, it is the first identity that cannot be deleted, else the
\* first of the list. An empty list fails with the no-identities error.
C13_FromMustMatch ==
  \A p \in Procs :
    Selected(p) =>
      /\ identities = << >> => result[p] = Err("NoIdentities")
      /\ (identities # << >> /\ FromGiven(p) /\ ~FromMatches(p)) =>
           (result[p] = Err("NoMatchingIdentity") /\ Batches(p) = << >>)
      /\ (identities # << >> /\ (~FromGiven(p) \/ FromMatches(p))) =>
           result[p].err \notin {"NoIdentities", "NoMatchingIdentity"}
      /\ picked[p].identity # NoUrl =>
           IF FromGiven(p)
           THEN IsFirstWith(p, picked[p].identity, LAMBDA i : MatchesFrom(p, i))
           ELSE IsPrimary(p, picked[p].identity)

\* C13 witness: from, written in capitals, chose the alias although a fixed
\* identity exists; another send, without from, chose the fixed identity that
\* stands second in the list.
C13_Witness ==
  \E p, q \in Procs :
    /\ Selected(p) /\ FromGiven(p) /\ arg[p].from.chars # Alias.email
    /\ picked[p].identity = Alias.id /\ Main \in Range(identities)
    /\ Selected(q) /\ ~FromGiven(q) /\ picked[q].identity = Main.id
    /\ identities[1] = Alias

\* ---- body check
HasText(p) == arg[p].textBody # ""
HasHtml(p) == arg[p].htmlBody # ""

\* p's invocation has reached the body check: an identity was selected.
BodyChecked(p) ==
  Selected(p) /\ result[p].err \notin {"NoIdentities", "NoMatchingIdentity"}

\* p's invocation went on to mailbox discovery.
Proceeded(p) ==
  \E i, j \in DOMAIN calls[p] :
    i < j /\ calls[p][i].m = "Identity/get" /\ calls[p][j].m = "Mailbox/get"

\* C14 as stated: sendEmail proceeds to mailbox discovery and batch
\* submission only when exactly one of textBody and htmlBody is present; with
\* neither, or with both, it fails with the missing-body error and submits no
\* batch.
C14_ExactlyOneBody ==
  \A p \in Procs :
    BodyChecked(p) =>
      IF HasText(p) # HasHtml(p)
      THEN result[p].err # "MissingBody"
      ELSE result[p] = Err("MissingBody") /\ ~Proceeded(p) /\ Batches(p) = << >>

\* C14 amended: sendEmail proceeds to mailbox discovery and batch submission
\* when at least one of textBody and htmlBody is present (both may be); with
\* neither present it fails with the missing-body error, lists no mailboxes
\* and submits no batch.
C14_AtLeastOneBody ==
  \A p \in Procs :
    BodyChecked(p) =>
      IF HasText(p) \/ HasHtml(p)
      THEN result[p].err # "MissingBody" /\ (pc[p] = "done" => Proceeded(p))
      ELSE result[p] = Err("MissingBody") /\ ~Proceeded(p) /\ Batches(p) = << >>

\* C14 witness: a send with both bodies went through, and one with neither
\* was refused.
C14_Witness ==
  \E p, q \in Procs :
    /\ Done(p, "send_email") /\ HasText(p) /\ HasHtml(p) /\ result[p].ok
    /\ Done(q, "send_email") /\ ~HasText(q) /\ ~HasHtml(q)
    /\ result[q] = Err("MissingBody")

\* ---- mailbox discovery
HasRole(m, role) == m.role.isString /\ m.role.chars = role
NameHolds(m, stem) == m.name.isString /\ TestIgnoreCase(stem, m.name.chars)

\* id is what the lookup of role, then stem, must yield in p's listing: a
\* mailbox with the role when there is one, else the first whose name holds
\* the stem.
Discovered(p, id, role, stem) ==
  \E k \in DOMAIN listing[p] :
    /\ listing[p][k].id = id
    /\ IF \E j \in DOMAIN listing[p] : HasRole(listing[p][j], role)
       THEN HasRole(listing[p][k], role)
       ELSE /\ NameHolds(listing[p][k], stem)
            /\ \A j \in 1..(k - 1) : ~NameHolds(listing[p][j], stem)

Discoverable(p, role, stem) ==
  \E k \in DOMAIN listing[p] : HasRole(listing[p][k], role) \/ NameHolds(listing[p][k], stem)

DraftStem == <<"d", "r", "a", "f", "t">>

\* C15: sendEmail takes as Drafts (Sent) a mailbox whose role is exactly drafts
\* (sent) whenever the listing has one, wherever it stands; only when no
\* mailbox has the role does it fall back to the first mailbox whose name
\* contains 'draft' ('sent') ignoring case. If either cannot be found it fails
\* with the mailbox-not-found error and submits no batch.
C15_RoleThenName ==
  \A p \in Procs :
    (Done(p, "send_email") /\ Proceeded(p)) =>
      IF Discoverable(p, drafts, DraftStem) /\ Discoverable(p, sent, sent)
      THEN /\ Len(Batches(p)) = 1
           /\ Discovered(p, picked[p].drafts, drafts, DraftStem)
           /\ Discovered(p, picked[p].sent, sent, sent)
           /\ Batches(p)[1].batch[1].mailboxIds = {picked[p].drafts}
      ELSE result[p] = Err("MailboxNotFound") /\ Batches(p) = << >>

\* C15 witness: the mailbox with role drafts was taken although a mailbox
\* named like drafts stands before it in the listing.
C15_Witness ==
  \E p \in Procs :
    /\ Done(p, "send_email") /\ Len(Batches(p)) = 1
    /\ \E j, k \in DOMAIN listing[p] :
         /\ j < k
         /\ NameHolds(listing[p][j], DraftStem) /\ ~HasRole(listing[p][j], drafts)
         /\ HasRole(listing[p][k], drafts)
         /\ picked[p].drafts = listing[p][k].id

\* The invocation has ended and the answer to its request holds a method-level
\* error response.
ReadTools == {"list_mailboxes", "list_emails", "search_emails", "mark_email_read", "move_email"}
MethodErrorAnswered(p) ==
  /\ op[p] \in ReadTools
  /\ pc[p] = "done"
  /\ calls[p] # << >>
  /\ LET c == calls[p][Len(calls[p])]
     IN  /\ c.m # "session"
         /\ \E i \in DOMAIN c.responses : c.responses[i].name = "error"

\* C16: when the server answers a method-level error response, list_mailboxes,
\* list_emails, search_emails, mark_email_read and move_email fail with an
\* error; none returns an empty list or OK.
C16_MethodErrorFails ==
  \A p \in Procs : MethodErrorAnswered(p) => ~result[p].ok

\* The writes of the calendar tools on a collection, as the invocation of p
\* issued them.
CalendarTools == {"create_calendar", "update_calendar", "delete_calendar"}
CollectionWrites(p) ==
  SelectSeq(calls[p], LAMBDA c : c.m \in {"makeCalendar", "davRequest", "deleteObject"})

\* C17: create_calendar, update_calendar and delete_calendar return success
\* only if the store reported success for the write; a non-success outcome
\* surfaces as an error.
C17_SuccessOnlyIfStoreSucceeded ==
  \A p \in Procs :
    (op[p] \in CalendarTools /\ pc[p] = "done" /\ result[p].ok)
      => \A i \in DOMAIN CollectionWrites(p) : IsSuccess(CollectionWrites(p)[i].status)

\* The invocation of p was given a timezone that is no valid identifier.
InvalidTimezoneGiven(p) ==
  /\ op[p] \in {"create_calendar", "update_calendar"}
  /\ arg[p].timezone # NoTz
  /\ ~isValidTimezone(arg[p].timezone)

\* C18: create_calendar and update_calendar given an invalid timezone fail
\* with the invalid-timezone error before any network call is made.
C18_InvalidTimezoneBeforeNetwork ==
  \A p \in Procs :
    InvalidTimezoneGiven(p)
      => /\ calls[p] = << >>
         /\ pc[p] = "done" => result[p].err = "InvalidTimezone"

\* The invocation of p has fetched the listing of collections and the id it
\* was given is not in it.
ListingTools ==
  {"update_calendar", "delete_calendar", "list_calendar_events",
   "create_calendar_event", "list_contacts", "create_contact"}
ListingCalls == {"fetchCalendars", "fetchAddressBooks"}
Unlisted(p) ==
  /\ op[p] \in ListingTools
  /\ \E i \in DOMAIN calls[p] : calls[p][i].m \in ListingCalls
  /\ arg[p].id \notin Range(listing[p])

\* C19: update_calendar, delete_calendar, list_calendar_events,
\* create_calendar_event, list_contacts and create_contact given a collection
\* id that is not in the listing they have just fetched fail with the
\* not-found error: the listing stays the last remote call of the invocation,
\* and no success, empty or not, is returned.
C19_UnlistedCollectionNotFound ==
  \A p \in Procs :
    Unlisted(p)
      => /\ calls[p][Len(calls[p])].m \in ListingCalls
         /\ pc[p] \in {"listed", "done"}
         /\ pc[p] = "done" => result[p] = Err("NotFound")

\* A list tool has ended on a collection id that its listing does not hold.
C19_Witness ==
  \E p \in Procs :
    Unlisted(p) /\ pc[p] = "done" /\ op[p] \in {"list_calendar_events", "list_contacts"}

\* The naive datetime of the call of p as a wall-clock reading, and the
\* instants at which the clock of the call's zone reads it.
WallOf(p) == DateUTC(arg[p].naive[3].n, arg[p].naive[5].n, arg[p].naive[7].n, arg[p].naive[9].n)
Converted(p) == op[p] = "naiveToUtcIso" /\ pc[p] = "done" /\ MatchesNaive(arg[p].naive)
OccursOnce(p) == Cardinality(InstantsOf(WallOf(p), arg[p].tzId)) = 1

\* C20: for every zone and every naive civil time that occurs exactly once
\* in it, naiveToUtcIso returns the UTC instant at which the zone's clock
\* reads that time, also shortly after a DST transition
\* (2026-03-08T03:30:00 in America/New_York gives 2026-03-08T07:30:00.000Z).
C20_NaiveToUtcExact ==
  \A p \in Procs :
    (Converted(p) /\ OccursOnce(p))
      => /\ result[p].ok
         /\ \E t \in InstantsOf(WallOf(p), arg[p].tzId) : result[p].time = toISOString(t)

\* The civil time of the call is skipped, or occurs twice, in the call's zone.
Skipped(p) == InstantsOf(WallOf(p), arg[p].tzId) = {}
Repeated(p) == Cardinality(InstantsOf(WallOf(p), arg[p].tzId)) = 2

\* The offset in force in the call's zone once the gap is over.
OffsetAfterGap(p) == OffsetAt(arg[p].tzId, WallOf(p) + 1440)

\* C21: for a naive civil time in a skipped civil hour of the zone,
\* naiveToUtcIso returns the input minus the offset that applies immediately
\* after the gap, not the input minus the offset in force before it.
C21_SkippedHourUsesOffsetAfter ==
  \A p \in Procs :
    (Converted(p) /\ Skipped(p))
      => result[p] = OkTime(toISOString(WallOf(p) - OffsetAfterGap(p)))

\* C22: for a naive civil time in a repeated civil hour of the zone,
\* naiveToUtcIso returns one of the two instants at which the zone's clock
\* reads the input, and no other instant.
C22_RepeatedHourIsOneOfTwo ==
  \A p \in Procs :
    (Converted(p) /\ Repeated(p))
      => /\ result[p].ok
         /\ \E t \in InstantsOf(WallOf(p), arg[p].tzId) : result[p].time = toISOString(t)

\* 01:30 on 1 November in New York was converted on a host set to New York
\* time.
C22_Witness ==
  \E p \in Procs :
    /\ Converted(p) /\ Repeated(p)
    /\ arg[p].naive = IsoText(11, 1, 1, 30)
    /\ arg[p].machine = "America/New_York"

\* C23: naiveToUtcIso fails with the invalid-format error for every input
\* that is not exactly of the shape YYYY-MM-DDTHH:MM:SS, and returns a result
\* for every input of that shape.
C23_InvalidFormatUnlessExactShape ==
  \A p \in Procs :
    (op[p] = "naiveToUtcIso" /\ pc[p] = "done")
      => IF arg[p].naive \in WellFormed
         THEN result[p].ok
         ELSE result[p] = Err("InvalidFormat")

\* An input with an offset suffix was refused.
C23_Witness ==
  \E p \in Procs :
    /\ op[p] = "naiveToUtcIso" /\ pc[p] = "done"
    /\ arg[p].naive = IsoText(3, 8, 3, 30) \o <<Char("Z")>>
    /\ ~result[p].ok

\* The text ends in Z or in +HH:MM or -HH:MM.
EndsInOffset(text) ==
  \E n \in {1, 4} :
    /\ Len(text) >= n
    /\ KindsOf(SubSeq(text, Len(text) - n + 1, Len(text))) \in
         { << <<"Z", 0>> >>,
           << <<"+", 0>>, <<"d", 2>>, <<":", 0>>, <<"d", 2>> >>,
           << <<"-", 0>>, <<"d", 2>>, <<":", 0>>, <<"d", 2>> >> }

\* C24: ensureOffsetAware returns a datetime that ends in Z or +/-HH:MM
\* unchanged and otherwise what naiveToUtcIso returns; every result it returns
\* is offset-aware and is returned unchanged when the function is applied to
\* it again.
C24_PassThroughOrConvert ==
  \A p \in Procs :
    (op[p] = "ensureOffsetAware" /\ pc[p] = "done")
      => /\ IF EndsInOffset(arg[p].naive)
            THEN result[p] = OkTime(arg[p].naive)
            ELSE result[p] = naiveToUtcIso(arg[p].naive, arg[p].tzId, arg[p].machine)
         /\ result[p].ok
              => /\ EndsInOffset(result[p].time)
                 /\ ensureOffsetAware(result[p].time, arg[p].tzId, arg[p].machine) = result[p]

\* ensureOffsetAware has been applied to the result of converting a naive
\* datetime.
C24_Witness ==
  \E p \in Procs :
    /\ op[p] = "ensureOffsetAware" /\ pc[p] = "done"
    /\ started = 1
    /\ result[p].ok
    /\ arg[p].naive = result[p].time
    /\ arg[p].naive = toISOString(DateUTC(3, 7, 15, 0))

\* Some line of the text begins with "TZID:".
HasTzidLine(text) ==
  \E i \in DOMAIN text : text[i] = "TZID:" /\ (i = 1 \/ text[i - 1] \in {"\r", "\n"})

\* C25: extracting the timezone from the property text built for a valid
\* IANA identifier gives that identifier back; extractCalendarTimezone returns
\* undefined for an undefined input, an empty input and a text without a TZID
\* line.
C25_RoundTripAndAbsent ==
  \A p \in Procs :
    /\ (op[p] = "buildCalendarTimezoneProperty" /\ pc[p] = "done")
         => result[p].value = Defined(<<arg[p].tzId>>)
    /\ (op[p] = "extractCalendarTimezone" /\ pc[p] = "done"
          /\ (~arg[p].vtimezone.defined \/ ~HasTzidLine(arg[p].vtimezone.text)))
         => result[p].value = Undefined

\* C26: whatever the title of the event (commas, semicolons, backslashes,
\* line breaks, leading or trailing spaces, more characters than the fold
\* width), parsing the text buildIcsEvent returned gives the title of the
\* record and the uid buildIcsEvent returned.
C26_EventTitleRoundTrip ==
  \A p \in Procs :
    (op[p] = "buildIcsEvent" /\ pc[p] = "done")
      => /\ result[p].parsed.title = Defined(arg[p].title)
         /\ result[p].parsed.uid = Defined(<<result[p].built.uid>>)

\* The runs of characters other than whitespace in a text, by the places
\* where they begin and end.
RunsOf(text) ==
  {r \in (DOMAIN text) \X (DOMAIN text) :
     /\ r[1] <= r[2]
     /\ \A k \in r[1]..r[2] : text[k] \notin Whitespace
     /\ (r[1] = 1 \/ text[r[1] - 1] \in Whitespace)
     /\ (r[2] = Len(text) \/ text[r[2] + 1] \in Whitespace)}
LastRun(text) == CHOOSE r \in RunsOf(text) : \A q \in RunsOf(text) : q[2] <= r[2]

\* The given name: the runs before the last one, single spaces between them.
RECURSIVE GivenOf(_, _)
GivenOf(text, runs) ==
  IF runs = {} THEN << >>
  ELSE LET r == CHOOSE a \in runs : \A b \in runs : b[1] <= a[1]
           before == GivenOf(text, runs \ {r})
       IN  (IF before = << >> THEN << >> ELSE before \o <<" ">>) \o SubSeq(text, r[1], r[2])

\* The line of a wire text that begins with the key.
LineOf(text, key) ==
  LET i == CHOOSE a \in DOMAIN text :
             /\ a > 1 /\ text[a - 1] = "\n"
             /\ a + Len(key) - 1 <= Len(text)
             /\ SubSeq(text, a, a + Len(key) - 1) = key
      j == CHOOSE b \in i..Len(text) :
             /\ \A k \in i..b : text[k] # "\r"
             /\ text[b + 1] = "\r"
  IN  SubSeq(text, i, j)

\* C27: buildVCard writes the N line with the last whitespace-delimited token
\* of the full name as family name and the tokens before it, joined by single
\* spaces, as given name; a name of one token is the family name and the
\* given name is empty; whitespace around the full name does not count.
C27_FamilyIsLastToken ==
  \A p \in Procs :
    (op[p] = "buildVCard" /\ pc[p] = "done" /\ RunsOf(arg[p].fullName) # {})
      => LET text == arg[p].fullName
             last == LastRun(text)
             family == SubSeq(text, last[1], last[2])
             given == GivenOf(text, RunsOf(text) \ {last})
         IN  LineOf(result[p].built.vcard, <<"N", ":">>)
               = <<"N", ":">> \o escText(family) \o <<";">> \o escText(given)
                   \o <<";", ";", ";">>

\* A name of three tokens with whitespace around it and a run of whitespace
\* inside it was written.
C27_Witness ==
  \E p \in Procs :
    /\ op[p] = "buildVCard" /\ pc[p] = "done"
    /\ arg[p].fullName = <<" ", "a", " ", " ", "b", "\t", "a", "b", " ">>
    /\ result[p].ok

\* C28: under any interleaving of concurrent tool invocations each long-lived
\* handle is created at most once and reused afterwards. Of the three handles
\* the model holds the JMAP session: it is assigned at most once.
C28_SessionCreatedOnce == session <= 1

\* The URLs of the privilege probes the invocation has sent, in order.
ProbedUrls(p) ==
  [i \in DOMAIN CallsOf(p, "propfind") |-> CallsOf(p, "propfind")[i].url]

\* C29: list_calendars sends exactly one privilege probe per calendar of the
\* listing, all of them before any has answered, and returns one entry per
\* calendar in listing order; a probe that throws leaves canWrite and
\* privileges absent on the entry of its calendar, every other entry is what
\* its own probe gives, and the listing does not fail.
C29_FanOutOneProbeEach ==
  \A p \in Procs :
    op[p] = "list_calendars"
      => /\ (pc[p] = "probing" \/ (pc[p] = "done" /\ result[p].ok))
              => ProbedUrls(p) = listing[p]
         /\ pc[p] \in {"login", "list", "listed"} => ProbedUrls(p) = << >>
         /\ pc[p] = "done" => (result[p].ok \/ result[p].err = "AuthError")
         /\ (pc[p] = "done" /\ result[p].ok)
              => /\ Len(result[p].list) = Len(listing[p])
                 /\ \A i \in DOMAIN listing[p] :
                      /\ result[p].list[i]
                           = SettledEntry(listing[p][i], getCalendarRights(probe[listing[p][i]]))
                      /\ probe[listing[p][i]].throws => ~result[p].list[i].known

\* The listing of two calendars was returned, the probe of the first having
\* thrown and the probe of the second having told write access.
C29_Witness ==
  \E p \in Procs :
    /\ op[p] = "list_calendars" /\ pc[p] = "done" /\ result[p].ok
    /\ listing[p] = <<CalB, CalA>>
    /\ probe[CalB].throws
    /\ ~result[p].list[1].known
    /\ result[p].list[2].known /\ result[p].list[2].canWrite

\* The calls that fetch a collection listing.
ListingFetches == {"fetchCalendars", "fetchAddressBooks"}

\* Login is the first call of the invocation and its only login; after a
\* failed login there is no other call; a listing the invocation holds was
\* fetched by a call of this invocation.
LoginFirstAndOnce(p) ==
  /\ calls[p] # << >>
       => /\ calls[p][1].m = "login"
          /\ \A i \in 2..Len(calls[p]) : calls[p][i].m # "login"
  /\ (pc[p] = "done" /\ result[p].err = "AuthError") => Len(calls[p]) = 1
  /\ listing[p] # << >> => \E i \in DOMAIN calls[p] : calls[p][i].m \in ListingFetches

\* C30 as stated: every CalDAV/CardDAV invocation that reaches the network
\* calls login exactly once and first, then fetches the collection listing
\* itself; after a failed login it issues no other call.
C30_LoginThenListingAlways ==
  \A p \in Procs :
    /\ LoginFirstAndOnce(p)
    /\ Len(calls[p]) >= 2 => calls[p][2].m \in ListingFetches

\* C30, amended: every CalDAV/CardDAV invocation that reaches the network
\* calls login exactly once and first, and after a failed login it issues no
\* other call; every tool but create_calendar fetches the collection listing
\* itself as its next call, and create_calendar fetches no listing.
C30_LoginFirstListingUnlessCreate ==
  \A p \in Procs :
    /\ LoginFirstAndOnce(p)
    /\ (Len(calls[p]) >= 2 /\ op[p] # "create_calendar")
         => calls[p][2].m \in ListingFetches
    /\ op[p] = "create_calendar"
         => \A i \in DOMAIN calls[p] : calls[p][i].m \notin ListingFetches

\* A second invocation has ended well after its login, its own fetch of the
\* listing and a further call.
C30_Witness ==
  \E p \in Procs :
    /\ started = 2
    /\ pc[p] = "done" /\ result[p].ok
    /\ Len(calls[p]) >= 3
    /\ calls[p][1].m = "login"
    /\ calls[p][2].m \in ListingFetches

\* The Trash mailbox of the account: the first mailbox with role trash, else
\* the first whose name contains "trash" in any case, else none.
WithRoleTrash == {i \in DOMAIN mailboxes : mailboxes[i].role = Js(trash)}
NamedTrash ==
  {i \in DOMAIN mailboxes :
     /\ mailboxes[i].name.isString
     /\ \E a, b \in 1..Len(mailboxes[i].name.chars) :
          toLowerCase(SubSeq(mailboxes[i].name.chars, a, b)) = trash}
TrashOf ==
  IF WithRoleTrash # {}
  THEN mailboxes[CHOOSE i \in WithRoleTrash : \A j \in WithRoleTrash : i <= j].id
  ELSE IF NamedTrash # {}
  THEN mailboxes[CHOOSE i \in NamedTrash : \A j \in NamedTrash : i <= j].id
  ELSE NoUrl

\* C31: delete_email destroys no message: the one update it sends sets the
\* mailboxes of the message to exactly the Trash mailbox (the mailbox with
\* role trash, else the first whose name contains "trash" in any case), a
\* message the account updated is in Trash only, and without such a mailbox
\* the invocation fails and sends no update.
C31_MovesToTrashOnly ==
  /\ \A id \in {EmailIds[1], EmailIds[2]} : \E i \in DOMAIN emails : emails[i].id = id
  /\ \A p \in Procs :
       op[p] = "delete_email"
         => /\ \A i \in DOMAIN calls[p] :
                 /\ calls[p][i].m \in {"session", "Mailbox/get", "Email/set"}
                 /\ calls[p][i].m = "Email/set"
                      => TrashOf # NoUrl /\ calls[p][i].mailboxIds = {TrashOf}
            /\ Len(CallsOf(p, "Email/set")) <= 1
            /\ (pc[p] = "done" /\ TrashOf = NoUrl)
                 => ~result[p].ok /\ ~Issued(p, "Email/set")
            /\ (pc[p] = "done" /\ result[p].ok)
                 => /\ Issued(p, "Email/set")
                    /\ \A i \in DOMAIN emails :
                         (emails[i].id = arg[p].id
                            /\ CallsOf(p, "Email/set")[1].responses[1].name # "error")
                           => emails[i].mailboxIds = {TrashOf}

\* A message that was in two mailboxes was deleted in an account whose Trash
\* is known by its name only, and is now in that mailbox alone.
C31_Witness ==
  \E p \in Procs :
    /\ Done(p, "delete_email") /\ result[p].ok
    /\ arg[p].id = EmailIds[2]
    /\ WithRoleTrash = {}
    /\ TrashOf = M2
    /\ \E i \in DOMAIN emails : emails[i].id = EmailIds[2] /\ emails[i].mailboxIds = {M2}

\* C39: mark_email_read changes only the seen flag of the target message:
\* every other keyword the message carried and its mailboxes are the same
\* after the call as before, for read = true and read = false.
C39_OnlySeenChanges ==
  [][\A p \in Procs :
       mark_email_read_request(p)
         => \A i \in DOMAIN emails :
              /\ emails'[i].mailboxIds = emails[i].mailboxIds
              /\ emails'[i].keywords \ {"$seen"} = emails[i].keywords \ {"$seen"}]_vars

\* The fetch calls of objects the invocation has sent.
FetchesOf(p) ==
  SelectSeq(calls[p], LAMBDA c : c.m \in {"fetchCalendarObjects", "fetchVCards"})

\* Some collection of the invocation's listing has a URL that the object id
\* begins with.
SomePrefixListed(p) == \E i \in DOMAIN listing[p] : IsPrefix(listing[p][i], arg[p].id)

\* The invocation got its listing.
GotListing(p) == \E i \in DOMAIN calls[p] : calls[p][i].m \in ListingFetches

\* C32: in update_calendar_event, delete_calendar_event, update_contact and
\* delete_contact the write call carries the URL and the version tag of the
\* object that the fetch of the same invocation returned; when no collection
\* URL is a prefix of the object id, or the fetch returns no object, the
\* invocation fails with a not-found error and issues no write call.
C32_WriteCarriesFetchedObject ==
  \A p \in Procs :
    op[p] \in UpdateTools \cup DeleteTools
      => /\ WritesOf(p) # << >>
              => /\ Len(FetchesOf(p)) = 1
                 /\ FetchesOf(p)[1].url = arg[p].id
                 /\ existing[p] # NoObj
                 /\ WritesOf(p)[1].url = existing[p].url
                 /\ WritesOf(p)[1].etag = existing[p].etag
                 /\ calls[p][Len(calls[p])] = WritesOf(p)[1]
         /\ (pc[p] = "done" /\ GotListing(p) /\ ~SomePrefixListed(p))
              => /\ result[p] = Err("NotFound")
                 /\ FetchesOf(p) = << >> /\ WritesOf(p) = << >>
         /\ (pc[p] = "done" /\ FetchesOf(p) # << >> /\ existing[p] = NoObj)
              => result[p] = Err("NotFound") /\ WritesOf(p) = << >>

\* A contact was deleted with the URL and the version tag its fetch returned.
C32_Witness ==
  \E p \in Procs :
    /\ Done(p, "delete_contact") /\ result[p].ok
    /\ WritesOf(p) # << >>
    /\ WritesOf(p)[1].url = CtA1
    /\ WritesOf(p)[1].etag = existing[p].etag
    /\ existing[p].etag # 0

\* The tools that look an object up by its id.
LookupTools ==
  UpdateTools \cup DeleteTools \cup {"get_calendar_event", "get_contact"}

\* C33: the id that create_calendar_event or create_contact returns for an
\* object made in collection C is a descendant URL of C, and a later get,
\* update or delete with that id resolves by the URL-prefix lookup to C
\* itself, whatever collections the listing holds, one whose URL is a prefix
\* of another included.
C33_CreatedIdResolvesToItsCollection ==
  \A p \in Procs :
    /\ (pc[p] = "done" /\ op[p] \in {"create_calendar_event", "create_contact"}
          /\ result[p].ok)
         => /\ IsPrefix(arg[p].id, result[p].id)
            /\ result[p].id # arg[p].id
            /\ result[p].id \in DOMAIN objects
    /\ (op[p] \in LookupTools /\ pc[p] = "listed" /\ arg[p].id \in DOMAIN objects)
         => FindByPrefix(listing[p], arg[p].id) = Parent(arg[p].id)

\* The property each argument of update_calendar stands for.
PropertyOf ==
  [a \in {"name", "description", "color", "timezone"} |->
     CASE a = "name" -> "displayname"
       [] a = "description" -> "c:calendar-description"
       [] a = "color" -> "ca:calendar-color"
       [] a = "timezone" -> "c:calendar-timezone"]

PropPatchesOf(p) == SelectSeq(calls[p], LAMBDA c : c.m = "davRequest")

\* C34: the property-update request of update_calendar sets exactly the
\* properties that were supplied (name, description, color, timezone) and no
\* other, and an invocation that supplies none of them fails before any
\* network call.
C34_SetsExactlySupplied ==
  \A p \in Procs :
    op[p] = "update_calendar"
      => /\ \A i \in DOMAIN PropPatchesOf(p) :
              /\ PropPatchesOf(p)[i].props = {PropertyOf[a] : a \in arg[p].props}
              /\ PropPatchesOf(p)[i].url = arg[p].id
         /\ Len(PropPatchesOf(p)) <= 1
         /\ arg[p].props = {}
              => /\ pc[p] = "done"
                 /\ result[p] = Err("InvalidFormat")
                 /\ calls[p] = << >>

\* One update supplied the color and the timezone only, another nothing.
C34_Witness ==
  /\ \E p \in Procs :
       /\ Done(p, "update_calendar") /\ result[p].ok
       /\ arg[p].props = {"color", "timezone"}
       /\ Len(PropPatchesOf(p)) = 1
       /\ PropPatchesOf(p)[1].props = {"ca:calendar-color", "c:calendar-timezone"}
  /\ \E p \in Procs :
       Done(p, "update_calendar") /\ arg[p].props = {} /\ ~result[p].ok

\* The privilege tokens of an answer: the keys of its object values, the
\* attribute key apart.
PrivilegeTokensOf(cups) ==
  IF cups.kind = "absent" THEN {}
  ELSE {k \in PrivTokens :
          \E i \in DOMAIN cups.items :
            cups.items[i].obj /\ k \in Range(cups.items[i].keys)}

\* C35: extractDavPrivileges returns the same duplicate-free token set for a
\* privilege given as a single object and as a list, counting neither the
\* attribute key nor entries that are not objects; canWrite holds exactly
\* when the set contains write, writeContent, writeProperties or all, and
\* canRead exactly when it contains read or all.
C35_PrivilegeTokens ==
  \A p \in Procs :
    Done(p, "extractDavPrivileges")
      => LET r == rights[p]
             cups == arg[p].cups
         IN  /\ Range(r.privileges) = PrivilegeTokensOf(cups)
             /\ Cardinality(Range(r.privileges)) = Len(r.privileges)
             /\ cups.kind = "single"
                  => r.privileges = extractDavPrivileges(Cups("list", cups.items))
             /\ r.canWrite <=>
                  PrivilegeTokensOf(cups) \cap {"write", "writeContent", "writeProperties", "all"} # {}
             /\ r.canRead <=> PrivilegeTokensOf(cups) \cap {"read", "all"} # {}

\* A list that names read twice, once beside the attribute key, gave the one
\* token read, readable and not writable.
C35_Witness ==
  \E p \in Procs :
    /\ Done(p, "extractDavPrivileges")
    /\ arg[p].cups = Cups("list", <<PrivItem(<<"_attributes", "read">>), PrivItem(<<"read">>)>>)
    /\ rights[p].privileges = <<"read">>
    /\ rights[p].canRead /\ ~rights[p].canWrite

\* The places of a text where a line break (CR LF) begins.
BreaksOf(t) == {i \in 1..(Len(t) - 1) : t[i] = "\r" /\ t[i + 1] = "\n"}

\* The physical lines of a text, each as the pair of its first and last place.
PhysicalLines(t) ==
  LET starts == {1} \cup {i + 2 : i \in BreaksOf(t)}
      EndOf(s) ==
        LET later == {i \in BreaksOf(t) : i >= s}
        IN  IF later = {} THEN Len(t)
            ELSE (CHOOSE i \in later : \A j \in later : i <= j) - 1
  IN  {<<s, EndOf(s)>> : s \in starts}

\* C36: every physical line that folding produces has at most 72 characters,
\* every continuation line begins with exactly one added space, and unfolding
\* restores the line as it was, whatever its length and content, spaces at
\* the fold boundary included.
C36_FoldRoundTrip ==
  \A p \in Procs :
    /\ (op[p] = "foldLine" /\ pc[p] \in {"folded", "done"})
         => LET t == result[p].text
                line == arg[p].line
            IN  /\ \A l \in PhysicalLines(t) : l[2] - l[1] + 1 <= 72
                /\ \A l \in PhysicalLines(t) : l[1] > 1 => t[l[1]] = " "
                /\ Len(t) = Len(line) + 3 * Cardinality(BreaksOf(t))
                /\ Len(line) > 72 => BreaksOf(t) # {}
                /\ \A i \in BreaksOf(t) :
                     LET before == Cardinality({j \in BreaksOf(t) : j < i})
                     IN  t[i + 3] = line[i - 3 * before]
    /\ Done(p, "foldLine") => result[p].unfolded = arg[p].line

\* A line of three times the width and one, with spaces on both sides of every
\* fold boundary, was folded into four physical lines and unfolded again.
C36_Witness ==
  \E p \in Procs :
    /\ Done(p, "foldLine")
    /\ arg[p].line = FoldLineOf(217, "boundary")
    /\ Cardinality(PhysicalLines(result[p].text)) = 4
    /\ result[p].unfolded = arg[p].line

\* The zone a calendar of the event-time specification declares; the host's
\* zone when it declares none or an empty one.
DeclaredZone(url) ==
  CASE url = CalNewYork -> "America/New_York"
    [] url = CalTokyo -> "Asia/Tokyo"
    [] OTHER -> getMachineTimezone

\* The instants, as UTC texts, at which the wall clock of a zone reads the
\* datetime without offset.
WallClockOf(naive) == DateUTC(naive[3].n, naive[5].n, naive[7].n, naive[9].n)
ReadInZone(naive, tzId) ==
  {toISOString(t) : t \in {u \in {WallClockOf(naive) + o : o \in {-540, -330, 0, 240, 300, 360}} :
                             toLocaleString(u, tzId) = WallClockOf(naive)}}

\* What a datetime argument of an event tool has to be sent as.
SentFor(datetime, url) ==
  IF datetime \in {AwareZulu, AwarePlus} THEN {datetime}
  ELSE ReadInZone(datetime, DeclaredZone(url))

EventRequests(p) ==
  SelectSeq(calls[p], LAMBDA c : c.m \in {"createCalendarObject", "fetchCalendarObjects"})

EventListingTools == {"list_calendar_events", "get_calendar_events_from_fastmail"}

\* C37: a datetime without offset given to create_calendar_event or
\* list_calendar_events is interpreted in the timezone the calendar declares
\* when that is not empty and in the machine's timezone otherwise; a datetime
\* with an offset is passed on unchanged.
C37_NaiveTimesInCalendarZone ==
  \A p \in Procs :
    op[p] \in EventListingTools \cup {"create_calendar_event"}
      => /\ \A i \in DOMAIN EventRequests(p) :
              LET c == EventRequests(p)[i]
              IN  /\ op[p] = "create_calendar_event" => "start" \in DOMAIN c
                  /\ "start" \in DOMAIN c
                       => /\ c.start \in SentFor(arg[p].start.text, arg[p].id)
                          /\ c.end \in SentFor(arg[p].end.text, arg[p].id)
         /\ (pc[p] = "done" /\ result[p].ok) => Len(EventRequests(p)) = 1

\* An event from 14:30 without offset to 16:30+02:00 was created in the
\* calendar that declares New York: it starts at 18:30Z and ends as given.
C37_Witness ==
  \E p \in Procs :
    /\ Done(p, "create_calendar_event") /\ result[p].ok
    /\ arg[p].id = CalNewYork
    /\ arg[p].start.text = NaiveJune /\ arg[p].end.text = AwarePlus
    /\ EventRequests(p)[1].start = toISOString(DateUTC(6, 15, 18, 30))
    /\ EventRequests(p)[1].end = AwarePlus

\* C38: list_calendar_events and its alias pass a time range to the fetch
\* exactly when both timeRangeStart and timeRangeEnd were supplied; with
\* exactly one bound the fetch is made without a time-range filter.
C38_RangeOnlyWithBothBounds ==
  \A p \in Procs :
    op[p] \in EventListingTools
      => /\ \A i \in DOMAIN EventRequests(p) :
              "start" \in DOMAIN EventRequests(p)[i]
                <=> (arg[p].start.defined /\ arg[p].end.defined)
         /\ (pc[p] = "done" /\ arg[p].id \in Range(listing[p])
               /\ arg[p].start.defined # arg[p].end.defined)
              => /\ result[p].ok
                 /\ Len(EventRequests(p)) = 1
                 /\ DOMAIN EventRequests(p)[1] = DOMAIN Call("fetchCalendarObjects", arg[p].id)
                 /\ result[p].list = Members(arg[p].id)

\* The alias was given a start and no end: its fetch carries no time range
\* and the event of the calendar is listed.
C38_Witness ==
  \E p \in Procs :
    /\ Done(p, "get_calendar_events_from_fastmail") /\ result[p].ok
    /\ arg[p].id = CalNewYork
    /\ arg[p].start.defined /\ ~arg[p].end.defined
    /\ EventRequests(p) = <<Call("fetchCalendarObjects", CalNewYork)>>
    /\ result[p].list = {EvNewYork}

\* C40: once a fetch of the session has succeeded, every getSession call that
\* starts later returns the cached session without another request; a fetch
\* that fails (a non-success status, or an answer without account) leaves the
\* cache as it was, so that a later call fetches again; calls that start
\* while the first fetch is pending each send their own fetch, and each that
\* succeeds ends with a usable session.
C40_SessionCache ==
  [][\A p \in Procs :
       /\ (pc[p] = "session" /\ pc'[p] # "session")
            => IF session > 0
               THEN /\ calls'[p] = calls[p]
                    /\ session' = session
                    /\ pc'[p] \notin {"fetching", "done"}
               ELSE /\ calls'[p] = Append(calls[p], Call("session", NoUrl))
                    /\ session' = session
                    /\ pc'[p] = "fetching"
       /\ (pc[p] = "fetching" /\ pc'[p] # "fetching")
            => \/ /\ pc'[p] = "done"
                  /\ result'[p] = Err("SessionError")
                  /\ session' = session
                  /\ calls'[p] = calls[p]
               \/ /\ pc'[p] \notin {"done", "session"}
                  /\ session' > 0
                  /\ calls'[p] = calls[p]]_vars

\* Two callers found no session, each sent its own fetch, and both fetches
\* succeeded.
C40_Witness ==
  /\ session = 2
  /\ \A p \in Procs :
       /\ pc[p] \notin {"idle", "session", "fetching", "done"}
       /\ CallsOf(p, "session") # << >>

====
